---- MODULE Spec2Model ----
(***************************************************************************)
(* State-machine model of the market-signal reconciliation and status      *)
(* decision subsystem of hbs-streamlit-v2 (db/operaciones_db.py,           *)
(* db/_legacydb_utils.py, db/models_orm.py, db/connection_db.py,           *)
(* app/services/database.py, app/services/calculations.py,                 *)
(* utils/helpers.py).                                                      *)
(*                                                                         *)
(* Tables are sets of rows.  Money values are integers in units of 1e-4    *)
(* (52.30 is 523000), so that the DECIMAL(7,3) and DECIMAL(7,4) columns    *)
(* can be modelled by what they store.  String comparison in a filter is   *)
(* exact equality, as in the SQLAlchemy expressions of the source.         *)
(***************************************************************************)
EXTENDS Integers, Sequences, FiniteSets, TLC

VARIABLES
    central_costo_operacional,  \* rows of table central_costo_operacional
    status_central,             \* rows of table status_central
    desacople_history,          \* rows of the table behind DesacopleHistory
    cmg_ponderado,              \* rows of table cmg_ponderado
    cmg_programados,            \* rows of table cmg_programados
    cmg_tiempo_real,            \* rows of table cmg_tiempo_real
    submitted,                  \* per raw bus name, the greatest detected_at handed to
                                \* upsert_desacople_history so far (0: none), and the calls made
    workers,                    \* position and locals of the interleaved upsert calls
    session,                    \* the session of the ledger and status writes: "active", or
                                \* "inactive" after a failed flush until it is rolled back
    archived,                   \* number of snapshots removed from the ledger outside of
                                \* the functions modelled here
    caller,                     \* locals of a caller that decides the status of a plant:
                                \* the snapshot it read for its classification
    ret                         \* the last call: its name, arguments and return value

vars == <<central_costo_operacional, status_central, desacople_history,
          cmg_ponderado, cmg_programados, submitted, workers, session, archived,
          caller, cmg_tiempo_real, ret>>

\* Python None: -1 where a number is expected, NoName where a name is, NoRow where a row is
None == -1
NoName == "None"
NoRow == [id |-> None]

(***************************************************************************)
(* Bounds                                                                  *)
(***************************************************************************)
MaxRows == 3          \* rows of central_costo_operacional and status_central together
MaxUpserts == 3       \* calls of upsert_desacople_history
MaxPonderado == 2     \* rows of cmg_ponderado
MaxArchived == 1      \* snapshots archived

Times == {1, 2}       \* epochs of snapshots and status records

(***************************************************************************)
(* Table central: two plants, each tied to one bus.                        *)
(***************************************************************************)
CentralTable ==
    { [id |-> 1, nombre |-> "Los Angeles", barra_transmision |-> "CHARRUA__220"],
      [id |-> 2, nombre |-> "Quillota", barra_transmision |-> "QUILLOTA__220"] }

\* names a caller may pass: the two plants and one name that is in no row of central
CentralNames == {"Los Angeles", "Quillota", "Otra"}

\* session.query(CentralTable).filter_by(nombre=central_nombre).first()
CentralIdByName(nombre) ==
    IF \E c \in CentralTable : c.nombre = nombre
    THEN (CHOOSE c \in CentralTable : c.nombre = nombre).id
    ELSE None

\* autoincrement primary key
NextId(table) ==
    IF table = {} THEN 1
    ELSE 1 + (CHOOSE m \in {r.id : r \in table} : \A r \in table : r.id <= m)

(***************************************************************************)
(* Column types                                                            *)
(***************************************************************************)
\* DECIMAL(7,3): a non-negative value in 1e-4 units is rounded half up to 1e-3
Decimal_7_3(v) == ((v + 5) \div 10) * 10

StatusValues == {"ON", "OFF", "HOLD"}

(***************************************************************************)
(* Operational-cost ledger                                                 *)
(***************************************************************************)
BadTimestamp == -2   \* a timestamp string that strptime rejects

\* UniqueConstraint('central_id', 'unix_time') and central_id nullable=False
CostoRowAccepted(row) ==
    /\ row.central_id # None
    /\ \A r \in central_costo_operacional :
          ~(r.central_id = row.central_id /\ r.unix_time = row.unix_time)

\* mutants of retrieve_costo_operacional: no filter on the plant; ascending order
retrieve_costo_operacional_AnyCentral(central_nombre) ==
    LET rows == central_costo_operacional
    IN  IF rows = {} THEN NoRow
        ELSE CHOOSE r \in rows :
                \A o \in rows : \/ o.unix_time < r.unix_time
                                \/ (o.unix_time = r.unix_time /\ o.id <= r.id)

retrieve_costo_operacional_Oldest(central_nombre) ==
    LET rows == {r \in central_costo_operacional : r.central_nombre = central_nombre}
    IN  IF rows = {} THEN NoRow
        ELSE CHOOSE r \in rows :
                \A o \in rows : \/ o.unix_time > r.unix_time
                                \/ (o.unix_time = r.unix_time /\ o.id >= r.id)

\* retrieve_costo_operacional: latest snapshot by (unix_time desc, id desc), or None
retrieve_costo_operacional(central_nombre) ==
    LET rows == {r \in central_costo_operacional : r.central_nombre = central_nombre}
    IN  IF rows = {} THEN NoRow
        ELSE CHOOSE r \in rows :
                \A o \in rows : \/ o.unix_time < r.unix_time
                                \/ (o.unix_time = r.unix_time /\ o.id <= r.id)

\* inject_costo_operacional: the row the call builds, before the commit.
\* now is datetime.now() at the call, now2 the later time.time() of the except branch.
CostoOperacionalRow(central_nombre, costo_operacional, timestamp, unix_time, central_id, now, now2) ==
    LET ts == IF timestamp = None THEN now ELSE timestamp
        ut == IF unix_time # None THEN unix_time
              ELSE IF ts = BadTimestamp THEN now2 ELSE ts
        cid == IF central_id = None /\ central_nombre # NoName
               THEN CentralIdByName(central_nombre) ELSE central_id
    IN  [id |-> NextId(central_costo_operacional),
         central_id |-> cid,
         central_nombre |-> central_nombre,
         timestamp |-> ts,
         unix_time |-> ut,
         costo_operacional |-> Decimal_7_3(costo_operacional)]

\* mutant of rollback: the except branch leaves the session as the failure left it
rollback_Missing(s) == s

\* session.rollback(): the failed transaction is discarded, the session is usable
rollback(s) == "active"

\* inject_costo_operacional: add and commit; any exception rolls back and returns None
inject_costo_operacional(central_nombre, costo_operacional, timestamp, unix_time, central_id, now, now2) ==
    LET row == CostoOperacionalRow(central_nombre, costo_operacional, timestamp,
                                   unix_time, central_id, now, now2)
        accepted == session = "active" /\ CostoRowAccepted(row)
    IN  /\ \/ Cardinality(central_costo_operacional) + Cardinality(status_central) < MaxRows
           \/ ~accepted
        /\ IF accepted
           THEN /\ central_costo_operacional' = central_costo_operacional \cup {row}
                /\ UNCHANGED session
                /\ ret' = [op |-> "inject_costo_operacional", central |-> central_nombre,
                           failure |-> "none", raised |-> FALSE,
                           unix_time |-> row.unix_time, value |-> costo_operacional,
                           result |-> row.id]
           ELSE /\ UNCHANGED central_costo_operacional
                /\ session' = rollback("inactive")
                /\ ret' = [op |-> "inject_costo_operacional", central |-> central_nombre,
                           failure |-> "none", raised |-> FALSE,
                           unix_time |-> row.unix_time, value |-> costo_operacional,
                           result |-> None]
        /\ UNCHANGED <<status_central, desacople_history, cmg_ponderado,
                       cmg_programados, submitted, workers, archived, caller,
                   cmg_tiempo_real>>

(***************************************************************************)
(* Status decision records                                                 *)
(***************************************************************************)
\* mutant of uq_central_unix_time: the table has no unique constraint
uq_central_unix_time_Missing(central, unix_time) == TRUE

\* UniqueConstraint('central', 'unix_time', name='uq_central_unix_time')
uq_central_unix_time(central, unix_time) ==
    \A r \in status_central : ~(r.central = central /\ r.unix_time = unix_time)

\* CheckConstraint status_operacional IN ('ON', 'OFF', 'HOLD')
check_status_operacional(status_operacional) ==
    status_operacional \in StatusValues

\* insert_status_central: the status is the caller's argument, stored as given.
\* The locals of the caller are left to the action that makes the call.
\* On an inactive session the query of retrieve_costo_operacional raises, and
\* retrieve_costo_operacional returns None for it.
insert_status_central(central_nombre, barra, unix_time, cmg_ponderado_in, status_operacional) ==
    LET costo_op == IF session = "active"
                    THEN retrieve_costo_operacional(central_nombre) ELSE NoRow
        accepted == /\ costo_op # NoRow
                    /\ uq_central_unix_time(central_nombre, unix_time)
                    /\ check_status_operacional(status_operacional)
        status_row == [id |-> NextId(status_central),
                       central |-> central_nombre,
                       barra |-> barra,
                       unix_time |-> unix_time,
                       cmg_ponderado |-> cmg_ponderado_in,
                       status_operacional |-> status_operacional,
                       costo_operacional_id |-> costo_op.id]
    IN  /\ \/ Cardinality(central_costo_operacional) + Cardinality(status_central) < MaxRows
           \/ ~accepted
        /\ IF accepted
           THEN /\ status_central' = status_central \cup {status_row}
                /\ UNCHANGED session
                /\ ret' = [op |-> "insert_status_central", central |-> central_nombre,
                           failure |-> "none", raised |-> FALSE,
                           unix_time |-> unix_time, value |-> cmg_ponderado_in,
                           result |-> status_row.id]
           ELSE /\ UNCHANGED status_central
                /\ session' = IF costo_op = NoRow THEN session ELSE rollback("inactive")
                /\ ret' = [op |-> "insert_status_central", central |-> central_nombre,
                           failure |-> "none", raised |-> FALSE,
                           unix_time |-> unix_time, value |-> cmg_ponderado_in,
                           result |-> None]
        /\ UNCHANGED <<central_costo_operacional, desacople_history, cmg_ponderado,
                       cmg_programados, submitted, workers, archived,
                   cmg_tiempo_real>>

(***************************************************************************)
(* Inputs of the ledger and status operations                              *)
(***************************************************************************)
CostValues == {480000, 500005}      \* 48.0000, 50.0005
\* (cmg_ponderado, status_operacional) pairs a caller passes
Decisions == { <<523000, "ON">>, <<523000, "OFF">>, <<479000, "HOLD">> }

BarraOf(central_nombre) ==
    IF \E c \in CentralTable : c.nombre = central_nombre
    THEN (CHOOSE c \in CentralTable : c.nombre = central_nombre).barra_transmision
    ELSE "CHARRUA__220"

InjectCostoOperacional ==
    \E n \in CentralNames, c \in CostValues, t \in Times :
        inject_costo_operacional(n, c, t, None, None, t, t)

\* arguments a caller may give for timestamp and unix_time: omitted, either
\* epoch, or a string that strptime rejects
TimestampArgs == {None, BadTimestamp} \cup Times
UnixTimeArgs == {None} \cup Times

\* inject_costo_operacional with optional arguments given; the clock is read
\* for a missing timestamp (now) and again in the except branch of the
\* conversion (now2, not earlier than now)
InjectCostoOperacionalArgs ==
    \E n \in {"Los Angeles", "Quillota"}, timestamp \in TimestampArgs,
       unix_time \in UnixTimeArgs, now \in Times :
        \E now2 \in {now, now + 1} :
            inject_costo_operacional(n, 480000, timestamp, unix_time, None, now, now2)

InsertStatusCentral ==
    \E n \in CentralNames, t \in Times, d \in Decisions :
        /\ insert_status_central(n, BarraOf(n), t, d[1], d[2])
        /\ UNCHANGED caller

(***************************************************************************)
(* Decoupling tracker.  The DesacopleHistory class is not among the        *)
(* models of db/models_orm.py; a row carries the columns the functions     *)
(* read and write, plus an autoincrement id.                               *)
(***************************************************************************)
\* raw bus names seen upstream, and str.upper() on them
BarraSpellings ==
    {"CHARRUA__220", "CHARRUA_22O", "CHARRUA_220", "CHARRUA",
     "QUILLOTA__220", "QUILLOTA_22O", "QUILLOTA_220", "QUILLOTA",
     "charrua__220", "charrua_22o", "charrua_220", "charrua",
     "quillota__220", "quillota_22o", "quillota_220", "quillota"}

Upper(b) ==
    CASE b = "charrua__220" -> "CHARRUA__220"
      [] b = "charrua_22o" -> "CHARRUA_22O"
      [] b = "charrua_220" -> "CHARRUA_220"
      [] b = "charrua" -> "CHARRUA"
      [] b = "quillota__220" -> "QUILLOTA__220"
      [] b = "quillota_22o" -> "QUILLOTA_22O"
      [] b = "quillota_220" -> "QUILLOTA_220"
      [] b = "quillota" -> "QUILLOTA"
      [] OTHER -> b

\* normalize_barra
normalize_barra(barra) ==
    IF barra = NoName THEN barra
    ELSE LET b == Upper(barra)
         IN  CASE b = "CHARRUA_22O" -> "CHARRUA__220"
               [] b = "QUILLOTA_22O" -> "QUILLOTA__220"
               [] b = "CHARRUA_220" -> "CHARRUA__220"
               [] b = "QUILLOTA_220" -> "QUILLOTA__220"
               [] b = "CHARRUA" -> "CHARRUA__220"
               [] b = "QUILLOTA" -> "QUILLOTA__220"
               [] OTHER -> b

\* get_latest_desacople_event: variants_map and the names the query filters on
variants_map(barra_normalizada) ==
    CASE barra_normalizada = "CHARRUA__220" ->
            {"CHARRUA__220", "CHARRUA_22O", "CHARRUA_220", "CHARRUA"}
      [] barra_normalizada = "QUILLOTA__220" ->
            {"QUILLOTA__220", "QUILLOTA_22O", "QUILLOTA_220", "QUILLOTA"}
      [] OTHER -> {}

variants(barra_transmision) ==
    {Upper(barra_transmision), Upper(normalize_barra(barra_transmision))}
        \cup variants_map(normalize_barra(barra_transmision))

\* .order_by(DesacopleHistory.detected_at.desc()).first(): the rows the query may
\* return (rows with equal detected_at come in no specified order)
FirstByDetectedAtDesc(rows) ==
    {r \in rows : \A o \in rows : o.detected_at <= r.detected_at}

\* the query of upsert_desacople_history: exact match on the name as passed
UltimoCandidates(barra_transmision) ==
    FirstByDetectedAtDesc({r \in desacople_history : r.barra_transmision = barra_transmision})

\* the query of get_latest_desacople_event: match on the variants
LatestCandidates(barra_transmision) ==
    FirstByDetectedAtDesc({r \in desacople_history :
                              r.barra_transmision \in variants(barra_transmision)})

\* the keys of the dict get_latest_desacople_event returns
EventFields(r) ==
    [estado |-> r.estado, detected_at |-> r.detected_at, tramo |-> r.tramo,
     comentario |-> r.comentario, fuente |-> r.fuente]

\* mutant of IsStale: the comparison with the stored event is missing
IsStale_Never(ultimo, detected_at) == FALSE

\* upsert_desacople_history: the guard that skips the write
IsStale(ultimo, detected_at) ==
    /\ ultimo # NoRow
    /\ ultimo.detected_at # None
    /\ detected_at <= ultimo.detected_at

\* the attributes the call assigns (to ultimo, or to the new object)
DesacopleRow(id, barra_transmision, ev, detected_at) ==
    [id |-> id, barra_transmision |-> barra_transmision, estado |-> ev.estado,
     detected_at |-> detected_at, tramo |-> ev.tramo, comentario |-> ev.comentario,
     fuente |-> ev.fuente]

\* the UPDATE a commit flushes for a loaded object: only the columns whose new
\* value differs from the loaded one are written, on the row with that id
FlushUpdate(table, loaded, new) ==
    { IF r.id # loaded.id THEN r
      ELSE [f \in DOMAIN r |-> IF new[f] # loaded[f] THEN new[f] ELSE r[f]] : r \in table }

\* mutant of UpsertWrite: a new row is added even when the bus has an event
UpsertWrite_Append(table, ultimo, barra_transmision, ev, detected_at) ==
    table \cup {DesacopleRow(NextId(table), barra_transmision, ev, detected_at)}

\* upsert_desacople_history: the table after the write of a call that is not stale
UpsertWrite(table, ultimo, barra_transmision, ev, detected_at) ==
    IF ultimo # NoRow
    THEN FlushUpdate(table, ultimo,
                     DesacopleRow(ultimo.id, ultimo.barra_transmision, ev, detected_at))
    ELSE table \cup {DesacopleRow(NextId(table), barra_transmision, ev, detected_at)}

\* the object the call returns
UpsertResult(table, ultimo) ==
    IF ultimo # NoRow THEN ultimo.id ELSE NextId(table)

Max(a, b) == IF a >= b THEN a ELSE b

Record(barra_transmision, detected_at) ==
    [submitted EXCEPT !.latest[barra_transmision] = Max(@, detected_at),
                      !.calls = @ + 1]

\* upsert_desacople_history, run without interleaving; ultimo is the row its query returned
upsert_desacople_history(barra_transmision, ev, detected_at, ultimo) ==
    /\ submitted.calls < MaxUpserts
    /\ submitted' = Record(barra_transmision, detected_at)
    /\ IF IsStale(ultimo, detected_at)
       THEN /\ UNCHANGED desacople_history
            /\ ret' = [op |-> "upsert_desacople_history", barra |-> barra_transmision,
                       failure |-> "none", raised |-> FALSE,
                       detected_at |-> detected_at, event |-> ev, result |-> ultimo.id]
       ELSE /\ desacople_history' =
                  UpsertWrite(desacople_history, ultimo, barra_transmision, ev, detected_at)
            /\ ret' = [op |-> "upsert_desacople_history", barra |-> barra_transmision,
                       failure |-> "none", raised |-> FALSE,
                       detected_at |-> detected_at, event |-> ev,
                       result |-> UpsertResult(desacople_history, ultimo)]
    /\ UNCHANGED <<central_costo_operacional, status_central, cmg_ponderado,
                   cmg_programados, workers, session, archived, caller,
                   cmg_tiempo_real>>

\* get_latest_desacople_event; ultimo is the row its query returned
get_latest_desacople_event(barra_transmision, ultimo) ==
    /\ ret' = [op |-> "get_latest_desacople_event", barra |-> barra_transmision,
               detected_at |-> 0,
               event |-> IF ultimo = NoRow THEN NoRow ELSE EventFields(ultimo),
               failure |-> "none", raised |-> FALSE,
               result |-> ultimo.id]
    /\ UNCHANGED <<central_costo_operacional, status_central, desacople_history,
                   cmg_ponderado, cmg_programados, submitted, workers, session, archived, caller,
                   cmg_tiempo_real>>

\* inputs of the decoupling operations
RawBarras == {"CHARRUA__220", "CHARRUA", "charrua_220", "QUILLOTA"}
DetectedTimes == {1, 2, 3}
EventInputs ==
    { [estado |-> "desacoplado", tramo |-> "T1", comentario |-> "c1", fuente |-> "etl"],
      [estado |-> "acoplado", tramo |-> NoName, comentario |-> NoName, fuente |-> NoName] }

OrNoRow(rows) == IF rows = {} THEN {NoRow} ELSE rows

UpsertDesacopleHistory ==
    \E b \in RawBarras, ev \in EventInputs, d \in DetectedTimes :
        \E ultimo \in OrNoRow(UltimoCandidates(b)) :
            upsert_desacople_history(b, ev, d, ultimo)

GetLatestDesacopleEvent ==
    \E b \in RawBarras :
        \E ultimo \in OrNoRow(LatestCandidates(b)) :
            get_latest_desacople_event(b, ultimo)

(***************************************************************************)
(* upsert_desacople_history run by concurrent sessions.  The function      *)
(* takes no lock and its SELECT is a plain read, so between the query and  *)
(* the commit of one call another call may query or commit.                *)
(***************************************************************************)
Workers == {1, 2}

Idle == [pc |-> "idle", barra |-> NoName, event |-> NoRow, detected_at |-> 0,
         ultimo |-> NoRow]

\* the bus the concurrent calls are made for
RaceBarras == {"CHARRUA__220"}

\* the query of a call: ultimo is loaded into the session of worker w
upsert_desacople_history_query(w, barra_transmision, ev, detected_at, ultimo) ==
    /\ workers[w].pc = "idle"
    /\ submitted.calls < MaxUpserts
    /\ submitted' = Record(barra_transmision, detected_at)
    /\ workers' = [workers EXCEPT ![w] =
                      [pc |-> "queried", barra |-> barra_transmision, event |-> ev,
                       detected_at |-> detected_at, ultimo |-> ultimo]]
    /\ UNCHANGED <<central_costo_operacional, status_central, desacople_history,
                   cmg_ponderado, cmg_programados, ret, session, archived, caller,
                   cmg_tiempo_real>>

\* the rest of the call: the comparison with the loaded ultimo, the write and
\* the commit
upsert_desacople_history_commit(w) ==
    LET c == workers[w]
    IN  /\ c.pc = "queried"
        /\ IF IsStale(c.ultimo, c.detected_at)
           THEN /\ UNCHANGED desacople_history
                /\ ret' = [op |-> "upsert_desacople_history", barra |-> c.barra,
                           failure |-> "none", raised |-> FALSE,
                           detected_at |-> c.detected_at, event |-> c.event,
                           result |-> c.ultimo.id]
           ELSE /\ desacople_history' =
                      UpsertWrite(desacople_history, c.ultimo, c.barra, c.event,
                                  c.detected_at)
                /\ ret' = [op |-> "upsert_desacople_history", barra |-> c.barra,
                           failure |-> "none", raised |-> FALSE,
                           detected_at |-> c.detected_at, event |-> c.event,
                           result |-> UpsertResult(desacople_history, c.ultimo)]
        /\ workers' = [workers EXCEPT ![w] = Idle]
        /\ UNCHANGED <<central_costo_operacional, status_central, cmg_ponderado,
                       cmg_programados, submitted, session, archived, caller,
                   cmg_tiempo_real>>

UpsertQuery ==
    \E w \in Workers, b \in RaceBarras, ev \in EventInputs, d \in DetectedTimes :
        \E ultimo \in OrNoRow(UltimoCandidates(b)) :
            upsert_desacople_history_query(w, b, ev, d, ultimo)

UpsertCommit == \E w \in Workers : upsert_desacople_history_commit(w)

(***************************************************************************)
(* Weighted marginal cost series (table cmg_ponderado).  Times are epoch   *)
(* seconds, prices are in units of 0.0001 (the scale of DECIMAL(7,4)).     *)
(***************************************************************************)
\* round(x, 2) on a price
Round2(v) == ((v + 50) \div 100) * 100

\* base_values of generate_fallback_cmg_ponderado, in the order of the dict
FallbackBarras == <<"CHARRUA__220", "QUILLOTA__220">>

base_values(barra) == IF barra = "CHARRUA__220" THEN 457500 ELSE 483200

\* (random.random() - 0.5) * 3 lies in [-1.5, 1.5): the two ends
RandomVars == {-15000, 14999}

\* range(delta_hours, 0, -1) has delta_hours elements, none when delta_hours <= 0
RangeLen(delta_hours) == IF delta_hours > 0 THEN delta_hours ELSE 0

\* The local time zone of the process, as datetime.fromtimestamp and
\* datetime.timestamp see it: the UTC offset is `before` for instants earlier
\* than `transition` and `after` from then on.  UTC has no transition; the
\* other two are the clock changes of America/Santiago (-03:00 to -04:00 in
\* April, -04:00 to -03:00 in September), placed inside the windows queried.
LocalZones ==
    {[name |-> "UTC", transition |-> 0, before |-> 0, after |-> 0],
     [name |-> "clocks back", transition |-> 3600, before |-> -10800, after |-> -14400],
     [name |-> "clocks forward", transition |-> 3600, before |-> -14400, after |-> -10800]}

\* datetime.fromtimestamp(t): the naive local time, as seconds
datetime_fromtimestamp(t, tz) == t + (IF t < tz.transition THEN tz.before ELSE tz.after)

\* naive.timestamp() for a naive local time n whose fold is 0: the instant
\* before the transition when there is one, else the instant after it, and
\* for a local time the clock change skipped the earlier offset is used
datetime_timestamp(n, tz) ==
    IF n - tz.before < tz.transition THEN n - tz.before
    ELSE IF n - tz.after >= tz.transition THEN n - tz.after
    ELSE n - tz.before

\* int((current_time - timedelta(hours=hour_offset)).timestamp())
unix_ts(unix_time_in, hour_offset, tz) ==
    datetime_timestamp(datetime_fromtimestamp(unix_time_in, tz) - hour_offset * 3600, tz)

\* generate_fallback_cmg_ponderado: two samples per hour_offset, from delta_hours
\* down to 1; random_var[k] is the random draw of sample k and tz the local
\* time zone of the process
generate_fallback_cmg_ponderado(unix_time_in, delta_hours, random_var, tz) ==
    [k \in 1..(2 * RangeLen(delta_hours)) |->
        LET hour_offset == delta_hours - ((k - 1) \div 2)
            barra == FallbackBarras[((k - 1) % 2) + 1]
            trend == ((hour_offset * 100000) \div delta_hours) - 50000
        IN  [barra_transmision |-> barra,
             unix_time |-> unix_ts(unix_time_in, hour_offset, tz),
             cmg_ponderado |-> Round2(base_values(barra) + trend + random_var[k])]]

\* the dict query_cmg_ponderado_by_time builds for a record
PonderadoDict(record) ==
    [barra_transmision |-> record.barra_transmision, unix_time |-> record.unix_time,
     cmg_ponderado |-> record.cmg_ponderado]

\* .order_by(CmgPonderado.unix_time).all(): the orders the query may return the
\* rows in (rows with equal unix_time come in no specified order)
OrderedByUnixTime(rows) ==
    {s \in [1..Cardinality(rows) -> rows] :
        \A i, j \in 1..Cardinality(rows) :
            i < j => (s[i] # s[j] /\ s[i].unix_time <= s[j].unix_time)}

\* the rows of the window [unixtime - delta_hours * 3600, unixtime]
WindowRows(unixtime, delta_hours) ==
    {r \in cmg_ponderado : /\ r.unix_time >= unixtime - delta_hours * 3600
                           /\ r.unix_time <= unixtime}

\* inject_cmg_ponderado
inject_cmg_ponderado(barra_transmision, unix_time, cmg_ponderado_in) ==
    /\ Cardinality(cmg_ponderado) < MaxPonderado
    /\ cmg_ponderado' = cmg_ponderado \cup
          {[id |-> NextId(cmg_ponderado), barra_transmision |-> barra_transmision,
            unix_time |-> unix_time, cmg_ponderado |-> cmg_ponderado_in]}
    /\ ret' = [op |-> "inject_cmg_ponderado", barra |-> barra_transmision,
               unix_time |-> unix_time, result |-> NextId(cmg_ponderado)]
    /\ UNCHANGED <<central_costo_operacional, status_central, desacople_history,
                   cmg_programados, submitted, workers, session, archived, caller,
                   cmg_tiempo_real>>

\* insert_or_replace_row_cmg_ponderado: the row of (barra_transmision, unix_time)
\* is updated, or added when there is none; .one() raises when there are
\* several, and the handler rolls back.  The function does not commit:
\* committed tells whether its caller commits the session afterwards.
insert_or_replace_row_cmg_ponderado(barra_transmision, cmg_ponderado_in, unix_time, committed) ==
    LET existing == {r \in cmg_ponderado : /\ r.barra_transmision = barra_transmision
                                           /\ r.unix_time = unix_time}
    IN  /\ \/ Cardinality(cmg_ponderado) < MaxPonderado
           \/ existing # {}
           \/ ~committed
        /\ cmg_ponderado' =
              IF ~committed \/ Cardinality(existing) > 1 THEN cmg_ponderado
              ELSE IF existing = {}
              THEN cmg_ponderado \cup
                      {[id |-> NextId(cmg_ponderado),
                        barra_transmision |-> barra_transmision,
                        unix_time |-> unix_time, cmg_ponderado |-> cmg_ponderado_in]}
              ELSE {IF r \in existing
                    THEN [r EXCEPT !.cmg_ponderado = cmg_ponderado_in] ELSE r :
                    r \in cmg_ponderado}
        /\ ret' = [op |-> "insert_or_replace_row_cmg_ponderado",
                   barra |-> barra_transmision, unix_time |-> unix_time,
                   result |-> None]
        /\ UNCHANGED <<central_costo_operacional, status_central, desacople_history,
                       cmg_programados, submitted, workers, session, archived, caller,
                   cmg_tiempo_real>>

\* query_cmg_ponderado_by_time; results is the list .all() returned and
\* random_var the draws of the fallback
query_cmg_ponderado_by_time(unixtime, delta_hours, results, random_var, tz) ==
    /\ ret' = [op |-> "query_cmg_ponderado_by_time", unixtime |-> unixtime,
               delta_hours |-> delta_hours, failure |-> "none", raised |-> FALSE,
               result |-> IF results # <<>>
                          THEN [i \in DOMAIN results |-> PonderadoDict(results[i])]
                          ELSE generate_fallback_cmg_ponderado(unixtime, delta_hours,
                                                               random_var, tz)]
    /\ UNCHANGED <<central_costo_operacional, status_central, desacople_history,
                   cmg_ponderado, cmg_programados, submitted, workers, session, archived, caller,
                   cmg_tiempo_real>>

\* query_cmg_ponderado_by_time when the store fails during the query: the
\* except branch returns the fallback series
query_cmg_ponderado_by_time_except(unixtime, delta_hours, random_var, tz) ==
    /\ ret' = [op |-> "query_cmg_ponderado_by_time", unixtime |-> unixtime,
               delta_hours |-> delta_hours, failure |-> "query", raised |-> FALSE,
               result |-> generate_fallback_cmg_ponderado(unixtime, delta_hours,
                                                          random_var, tz)]
    /\ UNCHANGED <<central_costo_operacional, status_central, desacople_history,
                   cmg_ponderado, cmg_programados, submitted, workers, session, archived, caller,
                   cmg_tiempo_real>>

\* the steps of DatabaseService.get_cmg_ponderado at which the store may fail:
\* self.Session(), the query, session.commit() and session.close()
SessionFailures == {"none", "open", "query", "commit", "close"}

\* DatabaseService.get_cmg_ponderado: the read inside get_session().  A failure
\* of the query is absorbed by query_cmg_ponderado_by_time; the commit that
\* follows on the broken connection succeeds or not (commit_ok).  An exception
\* of get_session is logged and raised again.
DatabaseService_get_cmg_ponderado(unixtime, delta_hours, failure, results, random_var, tz, commit_ok) ==
    LET raised == \/ failure \in {"open", "commit", "close"}
                  \/ (failure = "query" /\ ~commit_ok)
        result == IF results # <<>> /\ failure = "none"
                  THEN [i \in DOMAIN results |-> PonderadoDict(results[i])]
                  ELSE generate_fallback_cmg_ponderado(unixtime, delta_hours, random_var, tz)
    IN  /\ ret' = [op |-> "DatabaseService.get_cmg_ponderado", unixtime |-> unixtime,
                   delta_hours |-> delta_hours, failure |-> failure, raised |-> raised,
                   result |-> IF raised THEN <<>> ELSE result]
        /\ UNCHANGED <<central_costo_operacional, status_central, desacople_history,
                       cmg_ponderado, cmg_programados, submitted, workers, session, archived, caller,
                   cmg_tiempo_real>>

\* inputs of the series operations
PonderadoTimes == {3600, 7200}
PonderadoValues == {523000, 479000}
QueryTimes == {7200}
HoursBack == {0, 1, 2}

InjectCmgPonderado ==
    \E b \in {"CHARRUA__220", "QUILLOTA__220"}, t \in PonderadoTimes,
       v \in PonderadoValues :
        inject_cmg_ponderado(b, t, v)

InsertOrReplaceRowCmgPonderado ==
    \E b \in {"CHARRUA__220", "QUILLOTA__220"}, t \in PonderadoTimes,
       v \in PonderadoValues, committed \in BOOLEAN :
        insert_or_replace_row_cmg_ponderado(b, v, t, committed)

\* the draws of a fallback of n samples that are enumerated: every sample at
\* the low end, every sample at the high end, and the two buses at opposite ends
DrawVectors(n) ==
    {[k \in 1..n |-> -15000], [k \in 1..n |-> 14999],
     [k \in 1..n |-> IF k % 2 = 1 THEN -15000 ELSE 14999]}

\* the draws a call consumes: none unless the fallback runs
RandomDraws(used, delta_hours) ==
    IF used THEN DrawVectors(2 * RangeLen(delta_hours)) ELSE {<<>>}

\* the local zones that matter to a call: all of them when the fallback
\* computes timestamps, else any one
ZonesRead(used, delta_hours) ==
    IF used /\ delta_hours > 0 THEN LocalZones
    ELSE {tz \in LocalZones : tz.name = "UTC"}

QueryCmgPonderadoByTime ==
    \E unixtime \in QueryTimes, delta_hours \in HoursBack :
        \E results \in OrderedByUnixTime(WindowRows(unixtime, delta_hours)) :
            \E random_var \in RandomDraws(results = <<>>, delta_hours),
               tz \in ZonesRead(results = <<>>, delta_hours) :
                query_cmg_ponderado_by_time(unixtime, delta_hours, results, random_var, tz)

QueryCmgPonderadoByTimeExcept ==
    \E unixtime \in QueryTimes, delta_hours \in HoursBack :
        \E random_var \in RandomDraws(TRUE, delta_hours),
           tz \in ZonesRead(TRUE, delta_hours) :
            query_cmg_ponderado_by_time_except(unixtime, delta_hours, random_var, tz)

DatabaseServiceGetCmgPonderado ==
    \E unixtime \in QueryTimes, delta_hours \in HoursBack, failure \in SessionFailures :
        \E commit_ok \in (IF failure = "query" THEN BOOLEAN ELSE {TRUE}) :
            \E results \in (IF failure # "none" THEN {<<>>}
                            ELSE OrderedByUnixTime(WindowRows(unixtime, delta_hours))) :
                LET used == /\ failure \in {"none", "query"}
                            /\ commit_ok
                            /\ results = <<>>
                IN  \E random_var \in RandomDraws(used, delta_hours),
                       tz \in ZonesRead(used, delta_hours) :
                        DatabaseService_get_cmg_ponderado(unixtime, delta_hours, failure,
                                                          results, random_var, tz,
                                                          commit_ok)

(***************************************************************************)
(* Day-ahead forecast (table cmg_programados): one column per hour, an     *)
(* absent value is None.                                                   *)
(***************************************************************************)
Hours == 0..23

\* the hour columns a write sets; the columns it does not set stay NULL
FullDay(v) == [hour \in Hours |-> v + hour * 10000]
Forecasts ==
    {FullDay(400000), FullDay(450000),
     [hour \in Hours |-> IF hour < 12 THEN 420000 ELSE None]}

\* the row both writers build and add; no lookup of an existing row precedes it
ProgramadosRow(id, central, central_referencia, fecha_programado, valores) ==
    [id |-> id, central |-> central, central_referencia |-> central_referencia,
     fecha_programado |-> fecha_programado, valores |-> valores]

\* inject_cmg_programados: valores_horarios is a dict, a missing hour leaves its
\* column unset
inject_cmg_programados(central, central_referencia, fecha_programado, valores_horarios) ==
    /\ Cardinality(cmg_programados) < MaxRows
    /\ cmg_programados' = cmg_programados \cup
          {ProgramadosRow(NextId(cmg_programados), central, central_referencia,
                          fecha_programado, valores_horarios)}
    /\ ret' = [op |-> "inject_cmg_programados", central |-> central,
               fecha |-> fecha_programado, result |-> NextId(cmg_programados)]
    /\ UNCHANGED <<central_costo_operacional, status_central, desacople_history,
                   cmg_ponderado, submitted, workers, session, archived, caller,
                   cmg_tiempo_real>>

\* insert_row_cmg_programados: row_in[0..2] are the key columns and row_in[3..26]
\* the hours; it returns the id of the new row
insert_row_cmg_programados(row_in) ==
    /\ Cardinality(cmg_programados) < MaxRows
    /\ cmg_programados' = cmg_programados \cup
          {ProgramadosRow(NextId(cmg_programados), row_in[1], row_in[2], row_in[3],
                          [hour \in Hours |-> row_in[hour + 4]])}
    /\ ret' = [op |-> "insert_row_cmg_programados", central |-> row_in[1],
               fecha |-> row_in[3], result |-> NextId(cmg_programados)]
    /\ UNCHANGED <<central_costo_operacional, status_central, desacople_history,
                   cmg_ponderado, submitted, workers, session, archived, caller,
                   cmg_tiempo_real>>

\* (random.random() - 0.5) * 5 lies in [-2.5, 2.5); the draws of the 24 hours
Variations ==
    {[hour \in Hours |-> -25000], [hour \in Hours |-> 24999],
     [hour \in Hours |-> IF hour % 2 = 0 THEN -25000 ELSE 24999]}

\* generate_fallback_cmg_programados (the names are compared in lower case)
generate_fallback_cmg_programados(name_central, variation) ==
    LET base_value == CASE name_central = "Quillota" -> 480000
                        [] name_central = "Los Angeles" -> 450000
                        [] OTHER -> 500000
    IN  [hour \in Hours |-> Round2(base_value + hour * 5000 + variation[hour])]

\* the rows the query of get_cmg_programados matches; .first() without ORDER BY
\* returns any one of them
ProgramadosMatches(name_central, date_str) ==
    {r \in cmg_programados : r.central = name_central /\ r.fecha_programado = date_str}

\* get_cmg_programados: the dict built from a row; a NULL hour reads 50.0 + hour
CmgProgramadosData(result) ==
    [hour \in Hours |-> IF result.valores[hour] # None
                        THEN result.valores[hour]
                        ELSE 500000 + hour * 10000]

\* what get_cmg_programados returns; result is the row .first() returned
db_get_cmg_programados(name_central, result, variation) ==
    IF result # NoRow THEN CmgProgramadosData(result)
    ELSE generate_fallback_cmg_programados(name_central, variation)

\* get_cmg_programados
get_cmg_programados(name_central, date_in, result, variation) ==
    /\ ret' = [op |-> "get_cmg_programados", central |-> name_central,
               fecha |-> date_in, row |-> result.id,
               result |-> db_get_cmg_programados(name_central, result, variation)]
    /\ UNCHANGED <<central_costo_operacional, status_central, desacople_history,
                   cmg_ponderado, cmg_programados, submitted, workers, session, archived, caller,
                   cmg_tiempo_real>>

\* get_cmg_programados when the query fails: the except branch returns the
\* fallback curve
get_cmg_programados_except(name_central, date_in, variation) ==
    /\ ret' = [op |-> "get_cmg_programados", central |-> name_central,
               fecha |-> date_in, row |-> None,
               result |-> generate_fallback_cmg_programados(name_central, variation)]
    /\ UNCHANGED <<central_costo_operacional, status_central, desacople_history,
                   cmg_ponderado, cmg_programados, submitted, workers, session, archived, caller,
                   cmg_tiempo_real>>

\* where utils/helpers.get_cmg_programados reads from: the database when a
\* session is given, mock data without host or port or on localhost, else the
\* HTTP API, which answers 200, answers another status, or fails
ForecastSources == {"session", "local", "http_200", "http_status", "http_exception"}

\* utils/helpers.get_cmg_programados.  The dict it returns is a function of the
\* hour keys it holds: the error dict of a non-200 answer holds none, the
\* fallback of a failed request holds "00:00" to "02:00".  The body of a 200
\* answer is taken to be what the database read gives.
helpers_get_cmg_programados(name_central, date_in, source, result, variation) ==
    /\ ret' = [op |-> "helpers.get_cmg_programados", central |-> name_central,
               fecha |-> date_in, row |-> result.id, source |-> source,
               result |->
                   CASE source \in {"session", "http_200"} ->
                            db_get_cmg_programados(name_central, result, variation)
                     [] source = "local" -> [hour \in Hours |-> 500000 + hour * 10000]
                     [] source = "http_status" -> [hour \in {} |-> 0]
                     [] source = "http_exception" ->
                            [hour \in 0..2 |-> 500000 + hour * 10000]]
    /\ UNCHANGED <<central_costo_operacional, status_central, desacople_history,
                   cmg_ponderado, cmg_programados, submitted, workers, session, archived, caller,
                   cmg_tiempo_real>>

\* inputs of the forecast operations
ProgramadosCentrals == {"Los Angeles", "Quillota"}
FechasProgramado == {"2024-05-01"}
FechasConsulta == {"2024-05-01", "2024-05-02"}

InjectCmgProgramados ==
    \E c \in ProgramadosCentrals, f \in FechasProgramado, v \in Forecasts :
        inject_cmg_programados(c, BarraOf(c), f, v)

InsertRowCmgProgramados ==
    \E c \in ProgramadosCentrals, f \in FechasProgramado, v \in Forecasts :
        insert_row_cmg_programados(<<c, BarraOf(c), f>> \o [i \in 1..24 |-> v[i - 1]])

GetCmgProgramados ==
    \E c \in ProgramadosCentrals, f \in FechasConsulta :
        \E result \in OrNoRow(ProgramadosMatches(c, f)) :
            \E variation \in (IF result = NoRow THEN Variations
                              ELSE {[hour \in Hours |-> 0]}) :
                get_cmg_programados(c, f, result, variation)

GetCmgProgramadosExcept ==
    \E c \in ProgramadosCentrals, f \in FechasConsulta, variation \in Variations :
        get_cmg_programados_except(c, f, variation)

HelpersGetCmgProgramados ==
    \E c \in ProgramadosCentrals, f \in FechasConsulta, source \in ForecastSources :
        \E result \in (IF source \in {"session", "http_200"}
                       THEN OrNoRow(ProgramadosMatches(c, f)) ELSE {NoRow}) :
            \E variation \in (IF source \in {"session", "http_200"} /\ result = NoRow
                              THEN Variations ELSE {[hour \in Hours |-> 0]}) :
                helpers_get_cmg_programados(c, f, source, result, variation)

(***************************************************************************)
(* The writers when the store fails (connection lost, timeout): the except *)
(* branch of each function.                                                *)
(***************************************************************************)
\* inject_costo_operacional: rollback, return None
inject_costo_operacional_except(central_nombre, costo_operacional, unix_time) ==
    /\ session' = rollback("inactive")
    /\ ret' = [op |-> "inject_costo_operacional", central |-> central_nombre,
               failure |-> "store", raised |-> FALSE,
               unix_time |-> unix_time, value |-> costo_operacional, result |-> None]
    /\ UNCHANGED <<central_costo_operacional, status_central, desacople_history,
                   cmg_ponderado, cmg_programados, submitted, workers, archived, caller,
                   cmg_tiempo_real>>

\* the steps of insert_status_central at which the store may fail
StatusFailures == {"retrieve", "commit"}

\* insert_status_central.  A failure of the query is caught inside
\* retrieve_costo_operacional, which returns None, so the call takes the branch
\* of a missing snapshot and returns None without rollback (the session is left
\* as the failure left it, broken); a failure of the commit is caught by the
\* function itself: rollback, return None.
insert_status_central_except(central_nombre, unix_time, cmg_ponderado_in, at, broken) ==
    /\ at = "commit" => retrieve_costo_operacional(central_nombre) # NoRow
    /\ session' = IF at = "commit" THEN rollback("inactive")
                  ELSE IF broken THEN "inactive" ELSE session
    /\ ret' = [op |-> "insert_status_central", central |-> central_nombre,
               failure |-> "store", raised |-> FALSE,
               unix_time |-> unix_time, value |-> cmg_ponderado_in, result |-> None]
    /\ UNCHANGED <<central_costo_operacional, status_central, desacople_history,
                   cmg_ponderado, cmg_programados, submitted, workers, archived, caller,
                   cmg_tiempo_real>>

\* upsert_desacople_history: rollback, and the exception is raised again
upsert_desacople_history_except(barra_transmision, ev, detected_at) ==
    /\ ret' = [op |-> "upsert_desacople_history", barra |-> barra_transmision,
               failure |-> "store", raised |-> TRUE,
               detected_at |-> detected_at, event |-> ev, result |-> None]
    /\ UNCHANGED <<central_costo_operacional, status_central, desacople_history,
                   cmg_ponderado, cmg_programados, submitted, workers, session, archived, caller,
                   cmg_tiempo_real>>

\* the failing calls: the outcome of an except branch does not depend on the
\* values written, so one value of each is tried
InjectCostoOperacionalExcept ==
    \E n \in CentralNames, t \in Times :
        inject_costo_operacional_except(n, 480000, t)

InsertStatusCentralExcept ==
    \E n \in CentralNames, at \in StatusFailures, broken \in BOOLEAN :
        insert_status_central_except(n, 1, 523000, at, broken)

UpsertDesacopleHistoryExcept ==
    \E b \in RawBarras, ev \in EventInputs :
        upsert_desacople_history_except(b, ev, 1)

(***************************************************************************)
(* Status history                                                          *)
(***************************************************************************)
\* the centrals argument: omitted (None), or a list of plant names
NoCentrals == [given |-> FALSE, names |-> {}]
CentralsList(names) == [given |-> TRUE, names |-> names]

\* mutant of SelectedStatus: records without their snapshot are left out
SelectedStatus_InnerJoin(centrals) ==
    {r \in status_central :
        /\ (centrals.given /\ centrals.names # {}) => r.central \in centrals.names
        /\ \E c \in central_costo_operacional : c.id = r.costo_operacional_id}

\* get_status_central_history: the records of the query before order and
\* limit; the filter is applied for a non-empty list only
SelectedStatus(centrals) ==
    {r \in status_central :
        (centrals.given /\ centrals.names # {}) => r.central \in centrals.names}

\* .order_by(desc(StatusCentral.unix_time)): the orders the rows may come in
OrderedByUnixTimeDesc(rows) ==
    {s \in [1..Cardinality(rows) -> rows] :
        \A i, j \in 1..Cardinality(rows) :
            i < j => (s[i] # s[j] /\ s[i].unix_time >= s[j].unix_time)}

\* query.limit(limit), applied only when limit is truthy
Limited(rows, limit) ==
    IF limit # 0 /\ limit < Len(rows) THEN SubSeq(rows, 1, limit) ELSE rows

\* the lookup of the cost record of a status record, None when there is none
JoinedCost(status) ==
    IF \E c \in central_costo_operacional : c.id = status.costo_operacional_id
    THEN (CHOOSE c \in central_costo_operacional :
              c.id = status.costo_operacional_id).costo_operacional
    ELSE None

\* the entry built for one record
HistoryEntry(status) ==
    [id |-> status.id, central |-> status.central, barra |-> status.barra,
     unix_time |-> status.unix_time, cmg_ponderado |-> status.cmg_ponderado,
     status_operacional |-> status.status_operacional,
     generando |-> (status.status_operacional = "ON"),
     costo_operacional |-> JoinedCost(status)]

\* get_status_central_history; results is the list the ordered query returned
get_status_central_history(limit, centrals, results) ==
    /\ ret' = [op |-> "get_status_central_history", limit |-> limit,
               centrals |-> centrals, failure |-> "none", raised |-> FALSE,
               result |-> [i \in DOMAIN Limited(results, limit) |->
                              HistoryEntry(results[i])]]
    /\ UNCHANGED <<central_costo_operacional, status_central, desacople_history,
                   cmg_ponderado, cmg_programados, submitted, workers, session, archived, caller,
                   cmg_tiempo_real>>

\* a snapshot leaves the ledger outside of these functions (the plant is
\* archived); the status records that refer to it stay
ArchiveSnapshot ==
    /\ archived < MaxArchived
    /\ \E c \in central_costo_operacional :
          central_costo_operacional' = central_costo_operacional \ {c}
    /\ archived' = archived + 1
    /\ ret' = [op |-> "archive"]
    /\ UNCHANGED <<status_central, desacople_history, cmg_ponderado,
                   cmg_programados, submitted, workers, session, caller,
                   cmg_tiempo_real>>

\* inputs of the history read: limit 50 is the default
Limits == {0, 1, 50}
CentralsArgs ==
    {NoCentrals, CentralsList({}), CentralsList({"Los Angeles"}),
     CentralsList({"Los Angeles", "Quillota"})}

\* the writes that fill the tables the history is read from: one cost value and
\* one decision, for the plants of table central
InjectCostoOperacionalKnown ==
    \E n \in {"Los Angeles", "Quillota"}, t \in Times :
        inject_costo_operacional(n, 480000, t, None, None, t, t)

InsertStatusCentralOn ==
    \E n \in {"Los Angeles", "Quillota"}, t \in Times :
        /\ insert_status_central(n, BarraOf(n), t, 523000, "ON")
        /\ UNCHANGED caller

GetStatusCentralHistory ==
    \E limit \in Limits, centrals \in CentralsArgs :
        \E results \in OrderedByUnixTimeDesc(SelectedStatus(centrals)) :
            get_status_central_history(limit, centrals, results)

(***************************************************************************)
(* The fallback generator called on its own                                *)
(***************************************************************************)
FallbackEndEpochs == {7200, 10800}
FallbackHours == {0, 1, 2, 3}

GenerateFallbackCmgPonderado ==
    \E unix_time_in \in FallbackEndEpochs, delta_hours \in FallbackHours,
       tz \in LocalZones :
        \E random_var \in [1..(2 * RangeLen(delta_hours)) -> RandomVars] :
            /\ ret' = [op |-> "generate_fallback_cmg_ponderado",
                       unix_time_in |-> unix_time_in, delta_hours |-> delta_hours,
                       tz |-> tz.name,
                       result |-> generate_fallback_cmg_ponderado(unix_time_in, delta_hours,
                                                                  random_var, tz)]
            /\ UNCHANGED <<central_costo_operacional, status_central, desacople_history,
                           cmg_ponderado, cmg_programados, submitted, workers, session,
                           archived, caller,
                   cmg_tiempo_real>>

(***************************************************************************)
(* Market-data API client (utils/helpers.py).  A response is its outcome   *)
(* and, for a JSON body, the decoded document: a list of items, or an      *)
(* object or scalar.  An item is a JSON object whose keys 'barra', 'fecha' *)
(* and 'cmg' hold the value given or are "missing", or is not an object.   *)
(***************************************************************************)
\* the barras the caller asks for
BarrasAsked == {"CHARRUA__220"}

\* an item with the three keys; 'fecha' is the cutoff instant ("cutoff"),
\* another instant ("other") or a text strptime rejects ("unparsable"), and
\* 'cmg' is a number ("45.1") or a text ("n/a")
Item(barra, fecha, cmg) ==
    [shape |-> "object", barra |-> barra, fecha |-> fecha, cmg |-> cmg]

\* the items enumerated: three of the documented shape, one per defect, and
\* one that is not an object
Items ==
    {Item("CHARRUA__220", "cutoff", "45.1"), Item("CHARRUA__220", "other", "45.1"),
     Item("OTRA__110", "cutoff", "45.1"),
     Item("missing", "cutoff", "45.1"), Item("CHARRUA__220", "missing", "45.1"),
     Item("CHARRUA__220", "unparsable", "45.1"),
     Item("CHARRUA__220", "cutoff", "missing"), Item("CHARRUA__220", "cutoff", "n/a"),
     [shape |-> "scalar", barra |-> "missing", fecha |-> "missing", cmg |-> "missing"]}

MaxItems == 2

\* the documents json.loads can give: a list of items, a non-empty object, a
\* non-zero number
Documents ==
    {[kind |-> "list", items |-> s] :
        s \in UNION {[1..n -> Items] : n \in 0..MaxItems}}
    \cup {[kind |-> k, items |-> <<>>] : k \in {"object", "number"}}

NoDocument == [kind |-> "none", items |-> <<>>]

\* what requests.post and the body can be
Outcomes == {"transport_error", "status_not_200", "empty_body", "not_json", "json"}

Responses ==
    {[outcome |-> o, json_data |-> NoDocument] : o \in Outcomes \ {"json"}}
    \cup {[outcome |-> "json", json_data |-> d] : d \in Documents}

\* n['barra'] raises for an item that is not an object or has no such key
HasKey(n, key) ==
    /\ n.shape = "object"
    /\ CASE key = "barra" -> n.barra # "missing"
         [] key = "fecha" -> n.fecha # "missing"
         [] OTHER -> n.cmg # "missing"

\* [n for n in json_data if n['barra'] in barras]
RECURSIVE SelectItems(_, _)
SelectItems(s, asked) ==
    IF s = <<>> THEN <<>>
    ELSE IF Head(s).barra \in asked
         THEN <<Head(s)>> \o SelectItems(Tail(s), asked)
         ELSE SelectItems(Tail(s), asked)

\* get_json_costo_marginal_online: the list returned for a response
get_json_costo_marginal_online(response, barras) ==
    IF response.outcome # "json" THEN <<>>
    ELSE LET json_data == response.json_data
         IN  IF json_data.kind # "list" THEN <<>>
             ELSE IF json_data.items = <<>> THEN <<>>
             ELSE IF \E i \in DOMAIN json_data.items : ~HasKey(json_data.items[i], "barra")
                  THEN <<>>
             ELSE SelectItems(json_data.items, barras)

\* the rows whose 'fecha' is the cutoff
RECURSIVE selected_data(_)
selected_data(s) ==
    IF s = <<>> THEN <<>>
    ELSE IF Head(s).fecha = "cutoff"
         THEN <<Head(s)>> \o selected_data(Tail(s))
         ELSE selected_data(Tail(s))

\* {row['barra']: row['cmg'] for row in selected}: a later row replaces an
\* earlier one of the same barra
out_dict(selected) ==
    [b \in {selected[i].barra : i \in DOMAIN selected} |->
        LET last == CHOOSE i \in DOMAIN selected :
                        /\ selected[i].barra = b
                        /\ \A j \in DOMAIN selected : selected[j].barra = b => j <= i
        IN  selected[last].cmg]

EmptyDict == [b \in {} |-> "missing"]

\* get_costo_marginal_online_hora: the mapping returned for a response
get_costo_marginal_online_hora(response, barras) ==
    LET json_raw == get_json_costo_marginal_online(response, barras)
    IN  IF json_raw = <<>> THEN EmptyDict
        ELSE IF \E i \in DOMAIN json_raw :
                    \/ ~HasKey(json_raw[i], "fecha")
                    \/ json_raw[i].fecha = "unparsable"
             THEN EmptyDict
        ELSE IF \E i \in DOMAIN selected_data(json_raw) :
                    ~HasKey(selected_data(json_raw)[i], "cmg")
             THEN EmptyDict
        ELSE out_dict(selected_data(json_raw))

GetJsonCostoMarginalOnline ==
    \E response \in Responses :
        /\ ret' = [op |-> "get_json_costo_marginal_online", response |-> response,
                   raised |-> FALSE,
                   result |-> get_json_costo_marginal_online(response, BarrasAsked)]
        /\ UNCHANGED <<central_costo_operacional, status_central, desacople_history,
                       cmg_ponderado, cmg_programados, submitted, workers, session,
                       archived, caller,
                   cmg_tiempo_real>>

GetCostoMarginalOnlineHora ==
    \E response \in Responses :
        /\ ret' = [op |-> "get_costo_marginal_online_hora", response |-> response,
                   raised |-> FALSE,
                   result |-> get_costo_marginal_online_hora(response, BarrasAsked)]
        /\ UNCHANGED <<central_costo_operacional, status_central, desacople_history,
                       cmg_ponderado, cmg_programados, submitted, workers, session,
                       archived, caller,
                   cmg_tiempo_real>>

(***************************************************************************)
(* Dashboard reads: the latest decision of a plant, and the reads of the   *)
(* decoupling events and of the status history when the store fails.       *)
(***************************************************************************)
\* the latest decision of a plant by insertion (id) instead of unix_time
LatestStatusCandidates_ById(central_name) ==
    {r \in status_central :
        /\ r.central = central_name
        /\ \A o \in status_central : o.central = central_name => o.id <= r.id}

\* .filter_by(central=central_name).order_by(desc(unix_time)).first(): the rows
\* the query may return
LatestStatusCandidates(central_name) ==
    {r \in status_central :
        /\ r.central = central_name
        /\ \A o \in status_central : o.central = central_name => o.unix_time <= r.unix_time}

\* get_latest_status_central; latest_status is the row its query returned
get_latest_status_central(central_name, latest_status) ==
    /\ ret' = [op |-> "get_latest_status_central", central |-> central_name,
               failure |-> "none", raised |-> FALSE, row |-> latest_status.id,
               result |-> IF latest_status = NoRow THEN NoName
                          ELSE latest_status.status_operacional]
    /\ UNCHANGED <<central_costo_operacional, status_central, desacople_history,
                   cmg_ponderado, cmg_programados, submitted, workers, session, archived, caller,
                   cmg_tiempo_real>>

\* get_latest_status_central when the query fails
get_latest_status_central_except(central_name) ==
    /\ ret' = [op |-> "get_latest_status_central", central |-> central_name,
               failure |-> "query", raised |-> FALSE, row |-> None, result |-> NoName]
    /\ UNCHANGED <<central_costo_operacional, status_central, desacople_history,
                   cmg_ponderado, cmg_programados, submitted, workers, session, archived, caller,
                   cmg_tiempo_real>>

\* get_last_status_central: the row itself is returned, None when the query
\* finds none or fails
get_last_status_central(central_nombre, row, failure) ==
    /\ ret' = [op |-> "get_last_status_central", central |-> central_nombre,
               failure |-> failure, raised |-> FALSE,
               row |-> IF failure = "none" THEN row.id ELSE None,
               result |-> IF failure = "none" /\ row # NoRow
                          THEN row.status_operacional ELSE NoName]
    /\ UNCHANGED <<central_costo_operacional, status_central, desacople_history,
                   cmg_ponderado, cmg_programados, submitted, workers, session, archived, caller,
                   cmg_tiempo_real>>

\* get_latest_desacople_event when the query fails
get_latest_desacople_event_except(barra_transmision) ==
    /\ ret' = [op |-> "get_latest_desacople_event", barra |-> barra_transmision,
               detected_at |-> 0, event |-> NoRow,
               failure |-> "query", raised |-> FALSE, result |-> None]
    /\ UNCHANGED <<central_costo_operacional, status_central, desacople_history,
                   cmg_ponderado, cmg_programados, submitted, workers, session, archived, caller,
                   cmg_tiempo_real>>

\* get_status_central_history when the store fails: an empty DataFrame
get_status_central_history_except(limit, centrals) ==
    /\ ret' = [op |-> "get_status_central_history", limit |-> limit,
               centrals |-> centrals, failure |-> "query", raised |-> FALSE,
               result |-> <<>>]
    /\ UNCHANGED <<central_costo_operacional, status_central, desacople_history,
                   cmg_ponderado, cmg_programados, submitted, workers, session, archived, caller,
                   cmg_tiempo_real>>

\* the handler of DatabaseService.get_central_status raising the exception
\* again, as the one of DatabaseService.get_cmg_ponderado does
get_central_status_except_Reraise(failure) == [raised |-> TRUE, result |-> NoName]

\* the handler of DatabaseService.get_central_status: log, return None
get_central_status_except(failure) == [raised |-> FALSE, result |-> NoName]

\* DatabaseService.get_central_status: get_latest_status_central inside
\* get_session().  A failure of the query is absorbed by
\* get_latest_status_central, which returns None; the commit that follows
\* succeeds or not (commit_ok).  An exception of get_session reaches the handler.
DatabaseService_get_central_status(central_name, latest_status, failure, commit_ok) ==
    LET caught == \/ failure \in {"open", "commit", "close"}
                  \/ (failure = "query" /\ ~commit_ok)
        outcome == IF caught THEN get_central_status_except(failure)
                   ELSE [raised |-> FALSE,
                         result |-> IF failure = "none" /\ latest_status # NoRow
                                    THEN latest_status.status_operacional ELSE NoName]
    IN  /\ ret' = [op |-> "DatabaseService.get_central_status", central |-> central_name,
                   failure |-> failure, raised |-> outcome.raised,
                   row |-> IF failure = "none" THEN latest_status.id ELSE None,
                   result |-> outcome.result]
        /\ UNCHANGED <<central_costo_operacional, status_central, desacople_history,
                       cmg_ponderado, cmg_programados, submitted, workers, session, archived, caller,
                   cmg_tiempo_real>>

\* inputs of the dashboard reads
DashboardCentrals == {"Los Angeles", "Quillota"}
DashboardBarras == {"CHARRUA__220", "QUILLOTA"}

GetLatestStatusCentral ==
    \E n \in DashboardCentrals :
        \E latest_status \in OrNoRow(LatestStatusCandidates(n)) :
            get_latest_status_central(n, latest_status)

GetLatestStatusCentralExcept ==
    \E n \in DashboardCentrals : get_latest_status_central_except(n)

GetLastStatusCentral ==
    \E n \in DashboardCentrals, failure \in {"none", "query"} :
        \E row \in OrNoRow(LatestStatusCandidates(n)) :
            get_last_status_central(n, row, failure)

GetLatestDesacopleEventExcept ==
    \E b \in DashboardBarras : get_latest_desacople_event_except(b)

GetLatestDesacopleEventOf ==
    \E b \in DashboardBarras :
        \E ultimo \in OrNoRow(LatestCandidates(b)) :
            get_latest_desacople_event(b, ultimo)

\* the history as the dashboard asks for it: the default limit, every plant
\* or one plant
DashboardCentralsArgs == {NoCentrals, CentralsList({"Quillota"})}

GetStatusCentralHistoryDefault ==
    \E centrals \in DashboardCentralsArgs :
        \E results \in OrderedByUnixTimeDesc(SelectedStatus(centrals)) :
            get_status_central_history(50, centrals, results)

GetStatusCentralHistoryExcept ==
    \E centrals \in DashboardCentralsArgs :
        get_status_central_history_except(50, centrals)

DatabaseServiceGetCentralStatus ==
    \E n \in DashboardCentrals, failure \in SessionFailures :
        \E commit_ok \in (IF failure = "query" THEN BOOLEAN ELSE {TRUE}) :
            \E latest_status \in OrNoRow(LatestStatusCandidates(n)) :
                DatabaseService_get_central_status(n, latest_status, failure, commit_ok)

\* the write that fills the event table the dashboard reads: events of one barra
UpsertDesacopleHistoryOne ==
    \E d \in {1, 2} :
        \E ultimo \in OrNoRow(UltimoCandidates("CHARRUA__220")) :
            upsert_desacople_history("CHARRUA__220", CHOOSE ev \in EventInputs : TRUE,
                                     d, ultimo)

(***************************************************************************)
(* The session context managers DatabaseService.get_session and            *)
(* session_scope, statement by statement.  While a manager runs, ret holds *)
(* its position (pc), the calls it has made on the session (calls), the    *)
(* exception in flight (exc: "none", the class the body raised, or the     *)
(* call that raised) and the number of scopes entered so far.              *)
(***************************************************************************)
MaxScopes == 3

Managers == {"get_session", "session_scope"}

\* how the body of the with statement ends: it returns, it raises an
\* Exception, or it raises a BaseException that is not an Exception
\* (KeyboardInterrupt, SystemExit)
BodyOutcomes == {"returns", "Exception", "BaseException"}

InScope == ret.op \in Managers /\ ret.pc # "done"

ScopesEntered == IF ret.op \in Managers THEN ret.scopes ELSE 0

Scope(op, pc, body, calls, exc, opened) ==
    [op |-> op, pc |-> pc, body |-> body, calls |-> calls, exc |-> exc,
     opened |-> opened, raised |-> (pc = "done" /\ exc # "none"),
     scopes |-> IF ret.op \in Managers /\ ret.pc # "done" THEN ret.scopes
                ELSE ScopesEntered + 1]

\* except Exception: the handler runs for an Exception only
except_Exception(exc) == exc # "BaseException"

\* the manager is entered: session_scope is given the session, get_session
\* creates it with self.Session(), which may fail; the exception of
\* self.Session() reaches the handler with session = None
ScopeEnter ==
    /\ ~InScope
    /\ ScopesEntered < MaxScopes
    /\ \E op \in Managers, open_ok \in BOOLEAN :
          /\ (op = "session_scope" => open_ok)
          /\ ret' = IF open_ok THEN Scope(op, "body", "running", <<>>, "none", TRUE)
                    ELSE Scope(op, "done", "not run", <<>>, "open", FALSE)
    /\ UNCHANGED <<central_costo_operacional, status_central, desacople_history,
                   cmg_ponderado, cmg_programados, submitted, workers, session, archived, caller,
                   cmg_tiempo_real>>

\* yield session: the body runs and ends
ScopeBody ==
    /\ InScope /\ ret.pc = "body"
    /\ \E body \in BodyOutcomes :
          ret' = Scope(ret.op,
                       IF body = "returns" THEN "commit"
                       ELSE IF except_Exception(body) THEN "rollback" ELSE "close",
                       body, ret.calls,
                       IF body = "returns" THEN "none" ELSE body, TRUE)
    /\ UNCHANGED <<central_costo_operacional, status_central, desacople_history,
                   cmg_ponderado, cmg_programados, submitted, workers, session, archived, caller,
                   cmg_tiempo_real>>

\* session.commit(), which may raise
ScopeCommit ==
    /\ InScope /\ ret.pc = "commit"
    /\ \E commit_ok \in BOOLEAN :
          ret' = Scope(ret.op, IF commit_ok THEN "close" ELSE "rollback", ret.body,
                       Append(ret.calls, "commit"),
                       IF commit_ok THEN "none" ELSE "commit", TRUE)
    /\ UNCHANGED <<central_costo_operacional, status_central, desacople_history,
                   cmg_ponderado, cmg_programados, submitted, workers, session, archived, caller,
                   cmg_tiempo_real>>

\* the handler: session.rollback(), which may raise, then raise
ScopeRollback ==
    /\ InScope /\ ret.pc = "rollback"
    /\ \E rollback_ok \in BOOLEAN :
          ret' = Scope(ret.op, "close", ret.body, Append(ret.calls, "rollback"),
                       IF rollback_ok THEN ret.exc ELSE "rollback", TRUE)
    /\ UNCHANGED <<central_costo_operacional, status_central, desacople_history,
                   cmg_ponderado, cmg_programados, submitted, workers, session, archived, caller,
                   cmg_tiempo_real>>

\* finally: session.close(), which may raise
ScopeClose ==
    /\ InScope /\ ret.pc = "close"
    /\ \E close_ok \in BOOLEAN :
          ret' = Scope(ret.op, "done", ret.body, Append(ret.calls, "close"),
                       IF close_ok THEN ret.exc ELSE "close", TRUE)
    /\ UNCHANGED <<central_costo_operacional, status_central, desacople_history,
                   cmg_ponderado, cmg_programados, submitted, workers, session, archived, caller,
                   cmg_tiempo_real>>

(***************************************************************************)
(* A caller that decides the status of a plant: it reads the latest        *)
(* snapshot with retrieve_costo_operacional, classifies, and then calls    *)
(* insert_status_central.  Neither function takes a lock, so other writes  *)
(* may run between the two calls.                                          *)
(***************************************************************************)
NoRead == [pc |-> "idle", central |-> NoName, costo_op |-> None]

\* the caller's read of the latest cost of a plant
CallerRetrieveCostoOperacional ==
    /\ caller.pc = "idle"
    /\ session = "active"
    /\ \E n \in {"Los Angeles", "Quillota"} :
          /\ retrieve_costo_operacional(n) # NoRow
          /\ caller' = [pc |-> "classified", central |-> n,
                        costo_op |-> retrieve_costo_operacional(n).id]
          /\ ret' = [op |-> "retrieve_costo_operacional", central |-> n,
                     result |-> retrieve_costo_operacional(n).id]
    /\ UNCHANGED <<central_costo_operacional, status_central, desacople_history,
                   cmg_ponderado, cmg_programados, submitted, workers, session, archived,
                   cmg_tiempo_real>>

\* the caller's insert_status_central with the status it decided
CallerInsertStatusCentral ==
    /\ caller.pc = "classified"
    /\ \E t \in Times :
          insert_status_central(caller.central, BarraOf(caller.central), t, 523000, "ON")
    /\ caller' = NoRead

(***************************************************************************)
(* CalculationsService.calculate_cmg_hora (app/services/calculations.py).  *)
(* A point is its unix_time and its cmg, the cmg a whole number here.  The *)
(* float returned is the quotient of two integers, kept as the pair        *)
(* (num, den) so that no rounding enters the comparison.                   *)
(***************************************************************************)
MIN_CMG_VALUE == 0
MAX_CMG_VALUE == 1000

MaxSamples == 2

\* filtered_data: the points of [unix_time, unix_time + duration], in the
\* order of cmg_data
RECURSIVE filtered_data(_, _, _)
filtered_data(cmg_data, unix_time, duration) ==
    IF cmg_data = <<>> THEN <<>>
    ELSE IF unix_time <= Head(cmg_data).unix_time
            /\ Head(cmg_data).unix_time <= unix_time + duration
         THEN <<Head(cmg_data)>> \o filtered_data(Tail(cmg_data), unix_time, duration)
         ELSE filtered_data(Tail(cmg_data), unix_time, duration)

\* time_diffs: the offset of each point from unix_time, then duration + 1
time_diffs(points, unix_time, duration) ==
    [i \in 1..(Len(points) + 1) |->
        IF i <= Len(points) THEN points[i].unix_time - unix_time ELSE duration + 1]

\* np.diff(time_diffs): weights is this divided by duration + 1
diff(td) == [i \in 1..(Len(td) - 1) |-> td[i + 1] - td[i]]

RECURSIVE Sum(_)
Sum(s) == IF s = <<>> THEN 0 ELSE Head(s) + Sum(Tail(s))

\* np.sum(np.multiply(weights, cmg_values)) * (duration + 1)
cmg_hora_num(points, unix_time, duration) ==
    Sum([i \in 1..Len(points) |->
            diff(time_diffs(points, unix_time, duration))[i] * points[i].cmg])

\* validate_cmg_value(num / den)
validate_cmg_value(num, den) ==
    MIN_CMG_VALUE * den <= num /\ num <= MAX_CMG_VALUE * den

\* calculate_cmg_hora: ValueError when no point is in the window or the
\* value is not valid, else the value
calculate_cmg_hora(cmg_data, unix_time, duration) ==
    LET points == filtered_data(cmg_data, unix_time, duration)
        num == cmg_hora_num(points, unix_time, duration)
        den == duration + 1
        raised == points = <<>> \/ ~validate_cmg_value(num, den)
    IN  /\ ret' = [op |-> "calculate_cmg_hora", cmg_data |-> cmg_data,
                   unix_time |-> unix_time, duration |-> duration,
                   raised |-> raised,
                   num |-> IF raised THEN 0 ELSE num, den |-> den]
        /\ UNCHANGED <<central_costo_operacional, status_central, desacople_history,
                       cmg_ponderado, cmg_programados, submitted, workers, session,
                       archived, caller,
                   cmg_tiempo_real>>

\* inputs: points at the start, the middle and the end of the hour that
\* starts at 3600 and at the start of the next one; the window is one hour
\* (the default duration) from 3600 or from 5400
SampleTimes == {3600, 5400, 7199, 7200}
SampleCmgs == {100, 120}
SamplePoints == [unix_time : SampleTimes, cmg : SampleCmgs]
WindowStarts == {3600, 5400}

CalculateCmgHora ==
    \E cmg_data \in UNION {[1..n -> SamplePoints] : n \in 0..MaxSamples},
       unix_time \in WindowStarts :
        calculate_cmg_hora(cmg_data, unix_time, 3599)

(***************************************************************************)
(* Real-time marginal cost (table cmg_tiempo_real).  The calendar columns  *)
(* año, mes, dia and hora repeat unix_time and are left out.               *)
(***************************************************************************)
MaxTiempoReal == 2

\* inject_cmg_tiempo_real
inject_cmg_tiempo_real(barra_transmision, unix_time, desacople_bool, cmg, central_referencia) ==
    /\ Cardinality(cmg_tiempo_real) < MaxTiempoReal
    /\ cmg_tiempo_real' = cmg_tiempo_real \cup
          {[id_tracking |-> Cardinality(cmg_tiempo_real) + 1,
            barra_transmision |-> barra_transmision, unix_time |-> unix_time,
            desacople_bool |-> desacople_bool, cmg |-> cmg,
            central_referencia |-> central_referencia]}
    /\ ret' = [op |-> "inject_cmg_tiempo_real", barra |-> barra_transmision,
               unix_time |-> unix_time, result |-> Cardinality(cmg_tiempo_real) + 1]
    /\ UNCHANGED <<central_costo_operacional, status_central, desacople_history,
                   cmg_ponderado, cmg_programados, submitted, workers, session,
                   archived, caller>>

\* base_values[barra]['central'] of generate_fallback_cmg_tiempo_real
base_central(barra) ==
    IF barra = "CHARRUA__220" THEN "Central Charrua" ELSE "Central Quillota"

\* generate_fallback_cmg_tiempo_real: two samples per hour_offset, from 24 down
\* to 1; variation is the draw (random.random() - 0.5) * 5 used for every
\* sample, desacople the outcome of random.random() < 0.1, tz the local zone
generate_fallback_cmg_tiempo_real(unix_time_in, variation, desacople, tz) ==
    [k \in 1..48 |->
        LET hour_offset == 24 - ((k - 1) \div 2)
            barra == FallbackBarras[((k - 1) % 2) + 1]
        IN  [id_tracking |-> unix_ts(unix_time_in, hour_offset, tz) % 1000,
             barra_transmision |-> barra,
             unix_time |-> unix_ts(unix_time_in, hour_offset, tz),
             desacople_bool |-> desacople,
             cmg |-> Round2(base_values(barra) + variation),
             central_referencia |-> base_central(barra)]]

\* the rows CmgTiempoReal.unix_time >= unix_time_in selects
TiempoRealRows(unix_time_in) ==
    {r \in cmg_tiempo_real : r.unix_time >= unix_time_in}

\* get_cmg_tiempo_real; results is the list .all() returned (failed: the query
\* raised), the other arguments are what the fallback draws
get_cmg_tiempo_real(unix_time_in, results, failed, variation, desacople, tz) ==
    /\ ret' = [op |-> "get_cmg_tiempo_real", unix_time_in |-> unix_time_in,
               failure |-> IF failed THEN "query" ELSE "none", raised |-> FALSE,
               result |-> IF ~failed /\ results # <<>> THEN results
                          ELSE generate_fallback_cmg_tiempo_real(unix_time_in, variation,
                                                                 desacople, tz)]
    /\ UNCHANGED <<central_costo_operacional, status_central, desacople_history,
                   cmg_ponderado, cmg_programados, submitted, workers, session,
                   archived, caller, cmg_tiempo_real>>

\* inputs: epochs one hour apart, a day after the clock changes of LocalZones
TiempoRealTimes == {90000, 93600}
\* (random.random() - 0.5) * 5 lies in [-2.5, 2.5): the two ends
TiempoRealVariations == {-25000, 24999}

InjectCmgTiempoReal ==
    \E b \in {"CHARRUA__220", "QUILLOTA__220"}, t \in TiempoRealTimes :
        inject_cmg_tiempo_real(b, t, FALSE, 523000, base_central(b))

GetCmgTiempoReal ==
    \E unix_time_in \in TiempoRealTimes \cup {97200}, failed \in BOOLEAN :
        \E results \in (IF failed THEN {<<>>}
                        ELSE OrderedByUnixTime(TiempoRealRows(unix_time_in))) :
            \E variation \in (IF results = <<>> THEN TiempoRealVariations ELSE {0}),
               desacople \in (IF results = <<>> THEN BOOLEAN ELSE {FALSE}),
               tz \in (IF results = <<>> THEN LocalZones
                       ELSE {z \in LocalZones : z.name = "UTC"}) :
                get_cmg_tiempo_real(unix_time_in, results, failed, variation,
                                    desacople, tz)

(***************************************************************************)
(* The plant row shown on the dashboard                                    *)
(***************************************************************************)
\* .filter_by(central_nombre=name_central).order_by(desc(id)).first()
latest_cost(name_central) ==
    LET rows == {r \in central_costo_operacional : r.central_nombre = name_central}
    IN  IF rows = {} THEN NoRow
        ELSE CHOOSE r \in rows : \A o \in rows : o.id <= r.id

\* query_last_row_central: None when central has no row of that name, else
\* the columns of the row; costo_operacional is that of latest_cost, or None
\* (the central row has no such column) when the plant has no snapshot
query_last_row_central(name_central) ==
    /\ ret' = [op |-> "query_last_row_central", central |-> name_central,
               found |-> (CentralIdByName(name_central) # None),
               snapshot |-> IF CentralIdByName(name_central) # None
                            THEN latest_cost(name_central).id ELSE None,
               result |-> IF /\ CentralIdByName(name_central) # None
                             /\ latest_cost(name_central) # NoRow
                          THEN latest_cost(name_central).costo_operacional
                          ELSE None]
    /\ UNCHANGED <<central_costo_operacional, status_central, desacople_history,
                   cmg_ponderado, cmg_programados, submitted, workers, session,
                   archived, caller, cmg_tiempo_real>>

QueryLastRowCentral ==
    \E n \in CentralNames : query_last_row_central(n)

(***************************************************************************)
(* Initial state and specifications                                        *)
(***************************************************************************)
NoCall == [op |-> "none", central |-> NoName, unix_time |-> 0, value |-> 0, result |-> None]

Init ==
    /\ central_costo_operacional = {}
    /\ status_central = {}
    /\ desacople_history = {}
    /\ cmg_ponderado = {}
    /\ cmg_programados = {}
    /\ cmg_tiempo_real = {}
    /\ submitted = [latest |-> [b \in RawBarras |-> 0], calls |-> 0]
    /\ workers = [w \in Workers |-> Idle]
    /\ session = "active"
    /\ archived = 0
    /\ caller = NoRead
    /\ ret = NoCall

NextStatus ==
    \/ InjectCostoOperacional
    \/ InsertStatusCentral

SpecStatus == Init /\ [][NextStatus]_vars

NextWriteFailure ==
    \/ InjectCostoOperacional
    \/ InjectCostoOperacionalExcept
    \/ InsertStatusCentralExcept
    \/ UpsertDesacopleHistoryExcept

SpecWriteFailure == Init /\ [][NextWriteFailure]_vars

NextHistory ==
    \/ InjectCostoOperacionalKnown
    \/ InsertStatusCentralOn
    \/ ArchiveSnapshot
    \/ GetStatusCentralHistory

SpecHistory == Init /\ [][NextHistory]_vars

NextCosto ==
    \/ InjectCostoOperacionalArgs

SpecCosto == Init /\ [][NextCosto]_vars

NextDesacople ==
    \/ UpsertDesacopleHistory
    \/ GetLatestDesacopleEvent

SpecDesacople == Init /\ [][NextDesacople]_vars

NextCmgPonderado ==
    \/ InjectCmgPonderado
    \/ InsertOrReplaceRowCmgPonderado
    \/ QueryCmgPonderadoByTime
    \/ QueryCmgPonderadoByTimeExcept
    \/ DatabaseServiceGetCmgPonderado

SpecCmgPonderado == Init /\ [][NextCmgPonderado]_vars

NextCmgProgramados ==
    \/ InjectCmgProgramados
    \/ InsertRowCmgProgramados
    \/ GetCmgProgramados
    \/ GetCmgProgramadosExcept
    \/ HelpersGetCmgProgramados

SpecCmgProgramados == Init /\ [][NextCmgProgramados]_vars

NextFallback ==
    \/ GenerateFallbackCmgPonderado

SpecFallback == Init /\ [][NextFallback]_vars

NextApi ==
    \/ GetJsonCostoMarginalOnline
    \/ GetCostoMarginalOnlineHora

SpecApi == Init /\ [][NextApi]_vars

NextDashboard ==
    \/ InjectCostoOperacionalKnown
    \/ InsertStatusCentralOn
    \/ UpsertDesacopleHistoryOne
    \/ GetLatestStatusCentral
    \/ GetLatestStatusCentralExcept
    \/ GetLastStatusCentral
    \/ GetLatestDesacopleEventOf
    \/ GetLatestDesacopleEventExcept
    \/ GetStatusCentralHistoryDefault
    \/ GetStatusCentralHistoryExcept
    \/ DatabaseServiceGetCentralStatus

SpecDashboard == Init /\ [][NextDashboard]_vars

NextSession ==
    \/ ScopeEnter
    \/ ScopeBody
    \/ ScopeCommit
    \/ ScopeRollback
    \/ ScopeClose

SpecSession == Init /\ [][NextSession]_vars

NextDecision ==
    \/ InjectCostoOperacionalKnown
    \/ CallerRetrieveCostoOperacional
    \/ CallerInsertStatusCentral

SpecDecision == Init /\ [][NextDecision]_vars

NextCalculations ==
    \/ CalculateCmgHora

SpecCalculations == Init /\ [][NextCalculations]_vars

NextTiempoReal ==
    \/ InjectCmgTiempoReal
    \/ GetCmgTiempoReal

SpecTiempoReal == Init /\ [][NextTiempoReal]_vars

NextCentral ==
    \/ InjectCostoOperacional
    \/ QueryLastRowCentral

SpecCentral == Init /\ [][NextCentral]_vars

NextDesacopleRace ==
    \/ UpsertQuery
    \/ UpsertCommit

SpecDesacopleRace == Init /\ [][NextDesacopleRace]_vars

Next ==
    \/ NextStatus
    \/ NextCosto
    \/ NextHistory
    \/ NextWriteFailure
    \/ NextDesacople
    \/ NextDesacopleRace
    \/ NextCmgPonderado
    \/ NextDashboard
    \/ NextDecision
    \/ NextCalculations
    \/ NextTiempoReal
    \/ NextCentral
    \/ NextSession
    \/ NextFallback
    \/ NextApi
    \/ NextCmgProgramados

Spec == Init /\ [][Next]_vars

(***************************************************************************)
(* Claims on the ledger and the status records                             *)
(***************************************************************************)
SnapshotsOf(central_nombre) ==
    {r \in central_costo_operacional : r.central_nombre = central_nombre}

KnownCentral(central_nombre) == \E c \in CentralTable : c.nombre = central_nombre

\* C1: at most one StatusCentral record exists per (central, unix_time); an
\* insert_status_central call whose key already has a record returns None and
\* leaves every existing record as it was.
C1_OneStatusPerKey ==
    [][ /\ \A r1, r2 \in status_central' :
              (r1.central = r2.central /\ r1.unix_time = r2.unix_time) => r1 = r2
        /\ status_central \subseteq status_central'
        /\ (/\ ret'.op = "insert_status_central"
            /\ \E r \in status_central :
                  r.central = ret'.central /\ r.unix_time = ret'.unix_time)
           => (ret'.result = None /\ status_central' = status_central) ]_vars

\* a repeated call with another CMg value was rejected and the record kept its value
C1_Witness ==
    /\ ret.op = "insert_status_central"
    /\ ret.result = None
    /\ \E r \in status_central :
          /\ r.central = ret.central
          /\ r.unix_time = ret.unix_time
          /\ r.cmg_ponderado # ret.value

\* C2: insert_status_central for a plant without any cost snapshot returns None
\* and leaves status_central unchanged, whatever status and CMg were passed.
C2_NoSnapshotNoDecision ==
    [][ (ret'.op = "insert_status_central" /\ SnapshotsOf(ret'.central) = {})
        => (ret'.result = None /\ status_central' = status_central) ]_vars

\* a known plant without snapshot was skipped while another plant has a snapshot
C2_Witness ==
    /\ ret.op = "insert_status_central"
    /\ ret.result = None
    /\ KnownCentral(ret.central)
    /\ SnapshotsOf(ret.central) = {}
    /\ central_costo_operacional # {}

\* the three-way rule of the decision engine, with the margin a policy parameter
Classify(marginal_cost, computed_cost, margin) ==
    IF marginal_cost >= computed_cost THEN "ON"
    ELSE IF marginal_cost < computed_cost - margin THEN "OFF"
    ELSE "HOLD"

Margins == {0, 5000}    \* zero (the default) and 0.50

SnapshotById(id) == CHOOSE r \in central_costo_operacional : r.id = id

\* C3: the status persisted in a record is the classification of the record's
\* marginal cost against the computed cost of the linked snapshot, for the
\* configured margin.
C3_StatusIsClassification ==
    \E margin \in Margins :
        \A r \in status_central :
            r.status_operacional =
                Classify(r.cmg_ponderado,
                         SnapshotById(r.costo_operacional_id).costo_operacional, margin)

\* after an inject_costo_operacional for a plant of table central, the latest
\* snapshot of the plant carries the recorded value (as the column stores it)
LatestIsRecorded ==
    (ret.op = "inject_costo_operacional" /\ KnownCentral(ret.central))
    => /\ retrieve_costo_operacional(ret.central).id # None
       /\ retrieve_costo_operacional(ret.central).costo_operacional = Decimal_7_3(ret.value)

\* C6 as stated: every inject_costo_operacional for a plant of table central is
\* followed by a latest snapshot carrying the recorded value, and increases the
\* number of the plant's snapshots.
C6_RecordThenLatest ==
    [][ /\ LatestIsRecorded'
        /\ (ret'.op = "inject_costo_operacional" /\ KnownCentral(ret'.central))
           => \E r \in central_costo_operacional' \ central_costo_operacional :
                 r.central_nombre = ret'.central ]_vars

\* after an accepted inject_costo_operacional whose unix_time is not earlier than
\* that of any snapshot of the plant, retrieve_costo_operacional returns the new
\* snapshot, whose value is the recorded one rounded to three decimals
LatestIsAcceptedRecord ==
    (/\ ret.op = "inject_costo_operacional"
     /\ ret.result # None
     /\ \A r \in SnapshotsOf(ret.central) : r.unix_time <= ret.unix_time)
    => /\ retrieve_costo_operacional(ret.central).id = ret.result
       /\ retrieve_costo_operacional(ret.central).costo_operacional % 10 = 0
       /\ retrieve_costo_operacional(ret.central).costo_operacional - ret.value \in -4..5

\* C6 amended: an inject_costo_operacional that returns a snapshot adds exactly
\* one snapshot for the plant and removes none, and when its unix_time is not
\* earlier than that of any existing snapshot of the plant,
\* retrieve_costo_operacional returns that snapshot, with the value rounded to
\* three decimals; a rejected call (it returns None) leaves the ledger unchanged.
C6_AcceptedRecordThenLatest ==
    [][ /\ LatestIsAcceptedRecord'
        /\ ret'.op = "inject_costo_operacional"
           => IF ret'.result # None
              THEN /\ central_costo_operacional \subseteq central_costo_operacional'
                   /\ \E r \in central_costo_operacional' :
                         /\ r.central_nombre = ret'.central
                         /\ r.id = ret'.result
                         /\ central_costo_operacional'
                               = central_costo_operacional \cup {r}
                         /\ r \notin central_costo_operacional
              ELSE central_costo_operacional' = central_costo_operacional ]_vars

\* a later snapshot was appended to a plant that already had one and is the latest
C6_Witness ==
    /\ ret.op = "inject_costo_operacional"
    /\ ret.result # None
    /\ Cardinality(SnapshotsOf(ret.central)) >= 2
    /\ retrieve_costo_operacional(ret.central).id = ret.result
    /\ retrieve_costo_operacional(ret.central).costo_operacional # ret.value

(***************************************************************************)
(* Claims on the decoupling tracker                                        *)
(***************************************************************************)
RowsOfBarra(barra_transmision) ==
    {r \in desacople_history : r.barra_transmision = barra_transmision}

\* every upsert for the physical bus of b so far was made under the name b itself
OnlySpelling(b) ==
    \A s \in RawBarras \ {b} :
        submitted.latest[s] > 0 => normalize_barra(s) # normalize_barra(b)

\* for a bus always addressed by one upper-case name, get_latest_desacople_event
\* finds an event, and its detected_at is the greatest one submitted
LatestIsGreatestSubmitted ==
    \A b \in RawBarras :
        (Upper(b) = b /\ OnlySpelling(b) /\ submitted.latest[b] > 0)
        => /\ LatestCandidates(b) # {}
           /\ \A r \in LatestCandidates(b) : r.detected_at = submitted.latest[b]

C8_OneEventPerPhysicalBus ==
    \A r1, r2 \in desacople_history :
        normalize_barra(r1.barra_transmision) = normalize_barra(r2.barra_transmision)
        => r1 = r2

AllIdle == \A w \in Workers : workers[w].pc = "idle"

\* C10: once interleaved upserts for one bus have all returned, the bus has a
\* single stored event, and its detected_at is the greatest one submitted.
C10_InterleavedUpsertsKeepLatest ==
    AllIdle =>
        \A b \in RaceBarras :
            submitted.latest[b] > 0
            => \E r \in desacople_history :
                  /\ RowsOfBarra(b) = {r}
                  /\ r.detected_at = submitted.latest[b]

\* C5: whatever the end epoch and the hours looked back, and whether or not the
\* window holds rows, query_cmg_ponderado_by_time returns a non-empty sequence.
C5_QueryNeverEmpty ==
    ret.op = "query_cmg_ponderado_by_time" => Len(ret.result) > 0

\* the forecast rows stored for the key of the last call
RowsOfKey == ProgramadosMatches(ret.central, ret.fecha)

\* C7: for one (plant, date), a later forecast write replaces the earlier one
\* (the key never has a second row), and get_cmg_programados returns the 24
\* values of the most recent write, hour by hour.
C7_LastForecastReplaces ==
    /\ \A r1, r2 \in cmg_programados :
          (r1.central = r2.central /\ r1.fecha_programado = r2.fecha_programado)
          => r1 = r2
    /\ (ret.op = "get_cmg_programados" /\ RowsOfKey # {})
       => \E last \in RowsOfKey :
             /\ \A r \in RowsOfKey : r.id <= last.id
             /\ ret.result = last.valores

(***************************************************************************)
(* Claims on the weighted marginal cost series                             *)
(***************************************************************************)
CanonicalBarras == {"CHARRUA__220", "QUILLOTA__220"}

\* the positions of the samples of one bus in a returned series
SamplesOf(series, barra) ==
    {i \in DOMAIN series : series[i].barra_transmision = barra}

\* the stored rows of one physical bus in the window of the last query
WindowRowsOfBarra(barra) ==
    {r \in WindowRows(ret.unixtime, ret.delta_hours) :
        normalize_barra(r.barra_transmision) = barra}

\* C11: when the window of a query holds no row of a bus, the returned series
\* still has delta_hours samples for that bus under its canonical name, each
\* with a price in [0, 1000], whether or not the other bus has rows.
C11_FallbackPerBus ==
    ret.op = "query_cmg_ponderado_by_time"
    => \A b \in CanonicalBarras :
          WindowRowsOfBarra(b) = {}
          => /\ Cardinality(SamplesOf(ret.result, b)) = ret.delta_hours
             /\ \A i \in SamplesOf(ret.result, b) :
                   ret.result[i].cmg_ponderado \in 0..10000000

\* C12: in the series a query returns, the samples of one bus are strictly
\* ascending in unix_time, and every sample lies in the inclusive window
\* [unixtime - delta_hours * 3600, unixtime].
C12_AscendingInWindow ==
    ret.op = "query_cmg_ponderado_by_time"
    => /\ \A i, j \in DOMAIN ret.result :
             (i < j /\ ret.result[i].barra_transmision = ret.result[j].barra_transmision)
             => ret.result[i].unix_time < ret.result[j].unix_time
       /\ \A i \in DOMAIN ret.result :
             /\ ret.result[i].unix_time >= ret.unixtime - ret.delta_hours * 3600
             /\ ret.result[i].unix_time <= ret.unixtime

\* a series generate_fallback_cmg_ponderado can return for the arguments
IsFallbackSeries(series, unixtime, delta_hours) ==
    \E random_var \in [1..(2 * RangeLen(delta_hours)) -> RandomVars], tz \in LocalZones :
        series = generate_fallback_cmg_ponderado(unixtime, delta_hours, random_var, tz)

\* C13: when the store fails during a window read, made directly or through
\* DatabaseService.get_cmg_ponderado, no exception reaches the caller and the
\* value returned is the synthetic fallback series.
C13_ReadFailureGivesFallback ==
    (/\ ret.op \in {"query_cmg_ponderado_by_time", "DatabaseService.get_cmg_ponderado"}
     /\ ret.failure # "none")
    => /\ ~ret.raised
       /\ IsFallbackSeries(ret.result, ret.unixtime, ret.delta_hours)

(***************************************************************************)
(* Further claims on the ledger and the status records                     *)
(***************************************************************************)
\* the snapshots stored under the key of the last inject_costo_operacional call
SnapshotsOfKey(central_nombre, unix_time) ==
    {r \in central_costo_operacional :
        r.central_id = CentralIdByName(central_nombre) /\ r.unix_time = unix_time}

\* C14: the ledger holds at most one snapshot per (central_id, unix_time); an
\* inject_costo_operacional call on a key that has a snapshot returns None and
\* leaves the ledger as it was, and every call for a plant of table central on
\* a key without snapshot succeeds, also after a rejected call.
C14_DuplicateSnapshotRejected ==
    /\ [](\A r1, r2 \in central_costo_operacional :
             (r1.central_id = r2.central_id /\ r1.unix_time = r2.unix_time) => r1 = r2)
    /\ [][ ret'.op = "inject_costo_operacional"
           => IF SnapshotsOfKey(ret'.central, ret'.unix_time) # {}
              THEN /\ ret'.result = None
                   /\ central_costo_operacional' = central_costo_operacional
              ELSE KnownCentral(ret'.central) => ret'.result # None ]_vars

\* a call with another value on a key that has a snapshot was rejected, and the
\* snapshot kept its value
C14_Witness ==
    /\ ret.op = "inject_costo_operacional"
    /\ ret.result = None
    /\ session = "active"
    /\ Cardinality(SnapshotsOfKey(ret.central, ret.unix_time)) = 1
    /\ \A r \in SnapshotsOfKey(ret.central, ret.unix_time) :
          r.costo_operacional # Decimal_7_3(ret.value)

\* the epoch of a stored timestamp (a timestamp is kept as the epoch of the
\* wall-clock second it names; an unreadable one names none)
EpochOf(timestamp) == IF timestamp = BadTimestamp THEN None ELSE timestamp

\* C15: every stored snapshot has the unix_time derived from its own timestamp.
C15_EpochDerivedFromTimestamp ==
    \A r \in central_costo_operacional : r.unix_time = EpochOf(r.timestamp)

\* C16: the costo_operacional_id of every status record is the id of a stored
\* snapshot, and that snapshot is one of the record's own plant.
C16_StatusRefersToOwnSnapshot ==
    \A s \in status_central :
        \E c \in central_costo_operacional :
            /\ c.id = s.costo_operacional_id
            /\ c.central_nombre = s.central

\* a status record was written for a plant while the latest snapshot of the
\* ledger belongs to the other plant
C16_Witness ==
    /\ ret.op = "insert_status_central"
    /\ ret.result # None
    /\ \E s \in status_central, c \in central_costo_operacional :
          /\ s.id = ret.result
          /\ c.central_nombre # s.central
          /\ \A o \in SnapshotsOf(s.central) : o.unix_time <= c.unix_time /\ o.id < c.id

WriteOps == {"inject_costo_operacional", "insert_status_central",
             "upsert_desacople_history"}

\* what a writer returns for its deliberate no-op on a missing cost snapshot
NoOpResults(op) == IF op = "insert_status_central" THEN {None} ELSE {}

\* C17: a write during which the store fails changes no table, and its outcome
\* is an exception or a value that is neither a written row nor the value the
\* writer returns for its deliberate no-op on a missing cost snapshot.
C17_WriteFailureIsDistinct ==
    [][ (ret'.op \in WriteOps /\ ret'.failure = "store")
        => /\ central_costo_operacional' = central_costo_operacional
           /\ status_central' = status_central
           /\ desacople_history' = desacople_history
           /\ \/ ret'.raised
              \/ (ret'.result < 1 /\ ret'.result \notin NoOpResults(ret'.op)) ]_vars

(***************************************************************************)
(* Further claims on the day-ahead forecast                                *)
(***************************************************************************)
\* C18: a forecast read, made on the database or through the helper, returns a
\* value for each of the 24 hours "00:00" to "23:00" and for nothing else, and
\* no value is zero when it did not come from a stored row.
C18_Always24Values ==
    ret.op \in {"get_cmg_programados", "helpers.get_cmg_programados"}
    => /\ DOMAIN ret.result = Hours
       /\ ret.row = None => \A hour \in DOMAIN ret.result : ret.result[hour] # 0

(***************************************************************************)
(* Claims on the status history                                            *)
(***************************************************************************)
\* C19: get_status_central_history returns records of the plants of the list
\* only (none for the empty list, any plant when the list is omitted), in
\* descending order of unix_time, and at most limit of them.
C19_HistoryFilteredOrderedLimited ==
    ret.op = "get_status_central_history"
    => /\ \A i \in DOMAIN ret.result :
             ret.centrals.given => ret.result[i].central \in ret.centrals.names
       /\ \A i, j \in DOMAIN ret.result :
             i < j => ret.result[i].unix_time >= ret.result[j].unix_time
       /\ Len(ret.result) <= ret.limit

\* the stored record an entry of the history was built from
RecordOf(entry) == CHOOSE r \in status_central : r.id = entry.id

\* C20: every entry get_status_central_history returns carries the fields of
\* its record, and as cost the cost of the record's snapshot, or None when the
\* snapshot is not in the ledger; a read without filter and with the default
\* limit returns an entry for every stored record, whether or not its snapshot
\* is found.
C20_MissingSnapshotGivesNone ==
    ret.op = "get_status_central_history"
    => /\ \A i \in DOMAIN ret.result :
             LET entry == ret.result[i]
             IN  /\ \E r \in status_central : r.id = entry.id
                 /\ entry.central = RecordOf(entry).central
                 /\ entry.barra = RecordOf(entry).barra
                 /\ entry.unix_time = RecordOf(entry).unix_time
                 /\ entry.cmg_ponderado = RecordOf(entry).cmg_ponderado
                 /\ entry.status_operacional = RecordOf(entry).status_operacional
                 /\ IF \E c \in central_costo_operacional :
                          c.id = RecordOf(entry).costo_operacional_id
                    THEN \E c \in central_costo_operacional :
                            /\ c.id = RecordOf(entry).costo_operacional_id
                            /\ entry.costo_operacional = c.costo_operacional
                    ELSE entry.costo_operacional = None
       /\ (~ret.centrals.given /\ ret.limit = 50)
          => {ret.result[i].id : i \in DOMAIN ret.result}
                = {r.id : r \in status_central}

\* a read returned two records whose snapshot had been archived, with None as
\* their cost
C20_Witness ==
    /\ ret.op = "get_status_central_history"
    /\ archived > 0
    /\ Len(ret.result) = 2
    /\ Cardinality(status_central) = 2
    /\ \E i \in DOMAIN ret.result :
          /\ ret.result[i].costo_operacional = None
          /\ ret.result[i].status_operacional = "ON"

(***************************************************************************)
(* Further claims on the weighted marginal cost series                     *)
(***************************************************************************)
\* C21: a stored sample is never changed by later ingestion: every row of
\* cmg_ponderado is still stored, with the same price, after any step.
C21_SampleImmutable ==
    [][\A r \in cmg_ponderado : r \in cmg_ponderado']_vars

\* C22: the series generate_fallback_cmg_ponderado returns has, for each of the
\* two buses, one sample per hour looked back, with strictly increasing
\* unix_time, every sample in [unix_time_in - delta_hours * 3600, unix_time_in]
\* and every price in [0, 1000].
C22_FallbackSeriesWellFormed ==
    ret.op = "generate_fallback_cmg_ponderado"
    => /\ \A b \in CanonicalBarras :
             Cardinality(SamplesOf(ret.result, b)) = ret.delta_hours
       /\ \A i, j \in DOMAIN ret.result :
             (i < j /\ ret.result[i].barra_transmision = ret.result[j].barra_transmision)
             => ret.result[i].unix_time < ret.result[j].unix_time
       /\ \A i \in DOMAIN ret.result :
             /\ ret.result[i].unix_time >= ret.unix_time_in - ret.delta_hours * 3600
             /\ ret.result[i].unix_time <= ret.unix_time_in
             /\ ret.result[i].cmg_ponderado \in 0..10000000

(***************************************************************************)
(* Claims on the market-data API client                                    *)
(***************************************************************************)
\* an item of the shape the API documents: an object with a barra, a
\* parsable fecha and a numeric cmg
WellShaped(n) ==
    /\ n.shape = "object"
    /\ n.barra # "missing"
    /\ n.fecha \in {"cutoff", "other"}
    /\ n.cmg = "45.1"

\* the responses that carry no usable data
Malformed(response) ==
    \/ response.outcome # "json"
    \/ response.json_data.kind # "list"
    \/ \E i \in DOMAIN response.json_data.items :
          ~WellShaped(response.json_data.items[i])

\* C23: for a transport error, a status other than 200, an empty or non-JSON
\* body and a wrongly shaped document, get_json_costo_marginal_online returns
\* the empty list and get_costo_marginal_online_hora the empty mapping, and
\* neither raises.
C23_MalformedResponseGivesNoData ==
    (/\ ret.op \in {"get_json_costo_marginal_online", "get_costo_marginal_online_hora"}
     /\ Malformed(ret.response))
    => /\ ~ret.raised
       /\ DOMAIN ret.result = {}

(***************************************************************************)
(* Claims on the dashboard reads                                           *)
(***************************************************************************)
DashboardReads ==
    {"get_latest_desacople_event", "get_latest_status_central",
     "get_status_central_history", "DatabaseService.get_central_status"}

\* the last read found no matching record
NoMatchingRecord ==
    CASE ret.op = "get_latest_desacople_event" -> LatestCandidates(ret.barra) = {}
      [] ret.op = "get_status_central_history" -> SelectedStatus(ret.centrals) = {}
      [] OTHER -> LatestStatusCandidates(ret.central) = {}

\* the last read returned its no-data value
NoDataReturned ==
    CASE ret.op = "get_latest_desacople_event" -> ret.result = None /\ ret.event = NoRow
      [] ret.op = "get_status_central_history" -> ret.result = <<>>
      [] OTHER -> ret.result = NoName

Calls(name) == Cardinality({i \in DOMAIN ret.calls : ret.calls[i] = name})

ScopeDone == ret.op \in Managers /\ ret.pc = "done" /\ ret.opened

\* C25: a manager whose body returns commits exactly once and then closes the
\* session; a manager whose body raises never commits, rolls back exactly
\* once, closes the session and lets an exception reach the caller; on every
\* exit path close is called exactly once, as the last call.
C25_CommitOrRollbackThenClose ==
    ScopeDone
    => /\ Calls("close") = 1
       /\ ret.calls[Len(ret.calls)] = "close"
       /\ ret.body = "returns" => (Calls("commit") = 1 /\ ret.calls[1] = "commit")
       /\ ret.body # "returns"
          => /\ Calls("commit") = 0
             /\ Calls("rollback") = 1
             /\ ret.raised

(***************************************************************************)
(* Claims on the decision of a caller                                      *)
(***************************************************************************)
\* C26: the record a caller inserts links to the snapshot the caller read for
\* its classification, whatever was written to the ledger between the read
\* and the insert.
C26_LinksSnapshotUsed ==
    [][(caller.pc = "classified" /\ caller'.pc = "idle")
       => \A r \in status_central' \ status_central :
             r.costo_operacional_id = caller.costo_op]_vars

\* the decisions stored for a plant
StatusOf(central_name) == {r \in status_central : r.central = central_name}

\* C27: get_latest_status_central and get_last_status_central report the
\* decision of the plant with the greatest unix_time, whatever the order in
\* which the decisions were inserted and whatever is stored for other plants.
C27_LatestIsGreatestUnixTime ==
    (/\ ret.op \in {"get_latest_status_central", "get_last_status_central"}
     /\ ret.failure = "none"
     /\ StatusOf(ret.central) # {})
    => \E r \in StatusOf(ret.central) :
          /\ \A o \in StatusOf(ret.central) : o.unix_time <= r.unix_time
          /\ ret.row = r.id
          /\ ret.result = r.status_operacional

\* the decision reported was inserted before a decision of the same plant
\* for an older epoch
C27_Witness ==
    /\ ret.op = "get_latest_status_central"
    /\ ret.failure = "none"
    /\ \E r, o \in StatusOf(ret.central) :
          /\ ret.row = r.id
          /\ o.id > r.id
          /\ o.unix_time < r.unix_time

(***************************************************************************)
(* Claims on the hourly marginal cost                                      *)
(***************************************************************************)
\* the in-window points of the last calculate_cmg_hora call, and the numerators
\* of their weights
PointsUsed == filtered_data(ret.cmg_data, ret.unix_time, ret.duration)

WeightsUsed == diff(time_diffs(PointsUsed, ret.unix_time, ret.duration))

\* C28: for every non-empty set of in-window points, in any order,
\* calculate_cmg_hora returns a time-weighted average: the weights are not
\* negative and sum to 1, the value lies between the least and the greatest
\* cmg of the points, and is the cmg of the point when there is only one.
C28_TimeWeightedAverage ==
    (ret.op = "calculate_cmg_hora" /\ PointsUsed # <<>>)
    => /\ ~ret.raised
       /\ \A i \in DOMAIN WeightsUsed : WeightsUsed[i] >= 0
       /\ Sum(WeightsUsed) = ret.den
       /\ \E i \in DOMAIN PointsUsed : PointsUsed[i].cmg * ret.den <= ret.num
       /\ \E i \in DOMAIN PointsUsed : PointsUsed[i].cmg * ret.den >= ret.num
       /\ Len(PointsUsed) = 1 => ret.num = PointsUsed[1].cmg * ret.den

(***************************************************************************)
(* Claims on the real-time marginal cost                                   *)
(***************************************************************************)
\* C29: every sample get_cmg_tiempo_real returns, read from the table or
\* synthesized, has unix_time >= unix_time_in.
C29_SamplesNotBeforeStart ==
    ret.op = "get_cmg_tiempo_real"
    => \A i \in DOMAIN ret.result : ret.result[i].unix_time >= ret.unix_time_in

(***************************************************************************)
(* Claims on the plant row shown on the dashboard                          *)
(***************************************************************************)
\* C30: the cost query_last_row_central reports for a plant is the cost of the
\* snapshot retrieve_costo_operacional returns as the latest of that plant.
C30_DashboardCostIsLatestSnapshot ==
    (/\ ret.op = "query_last_row_central"
     /\ ret.found
     /\ retrieve_costo_operacional(ret.central) # NoRow)
    => /\ ret.snapshot = retrieve_costo_operacional(ret.central).id
       /\ ret.result = retrieve_costo_operacional(ret.central).costo_operacional

====
